---- MODULE Spec2Model ----
(***************************************************************************)
(* Model of the hymnal backend's pagination and query-filtering engine     *)
(* (CrudService) and of the hymn list operation built on it.               *)
(***************************************************************************)
EXTENDS Integers, Sequences, FiniteSets, TLC

VARIABLES
    rows,      \* the table: row id -> [title, number, author, st]
    base,      \* the parameters the client keeps across a cursor traversal
    req,       \* the latest call: [act, params]
    resp,      \* the result of the latest call
    queries,   \* the queries the latest call sent to the data layer, in order
    hist,      \* the three latest cursor calls of the client, oldest first
    trav,      \* rows collected by the forward traversal under way
    chain,     \* "none" | "fwd": whether every call so far was first page / next
    stable,    \* rows that matched the query since the traversal started
    cache,     \* the hymn list cache: set of [key, value] entries in force
    writes,    \* number of writes other requests made to the table
    input,     \* the arguments handed to a pure operation (merge, filter
               \* parsing), or the rows handed to a caller's dataMapper
    mapper,    \* one mapResults call: [rows, pc, cachedData, received, settled]
    auth,      \* users, sessions, audit log and clock of the auth service
    lib        \* verses, choruses, clock and open transactions of the hymn
               \* service, and its latest answer

vars == <<rows, base, req, resp, queries, hist, trav, chain, stable, cache,
         writes, input, mapper, auth, lib>>

\* ---------------------------------------------------------------- bounds

MaxRows == 3
MaxSize == 3
MaxPage == 4
MaxWrites == 2
MaxMerge == 2

\* ------------------------------------------------------------- constants

DEFAULT_PAGINATION_SIZE == 25

\* ------------------------------------------------------------ primitives

Range(s) == {s[i] : i \in 1..Len(s)}

Min2(a, b) == IF a < b THEN a ELSE b

Max2(a, b) == IF a > b THEN a ELSE b

Abs(n) == IF n < 0 THEN -n ELSE n

Reverse(s) == [i \in 1..Len(s) |-> s[Len(s) + 1 - i]]

Take(s, n) == SubSeq(s, 1, Min2(Len(s), n))

Drop(s, n) == SubSeq(s, Min2(Len(s), n) + 1, Len(s))

Pos(s, x) == CHOOSE i \in 1..Len(s) : s[i] = x

\* Math.ceil(a / b) for a >= 0, b > 0
Ceil(a, b) == (a + b - 1) \div b

\* -------------------------------------------------------------- strings
\* A string is a sequence of one-character strings.

Digits == {"0", "1", "2", "3", "4", "5", "6", "7", "8", "9"}

CharCode(c) ==
    CASE c = "0" -> 48 [] c = "1" -> 49 [] c = "2" -> 50 [] c = "3" -> 51
      [] c = "4" -> 52 [] c = "5" -> 53 [] c = "6" -> 54 [] c = "7" -> 55
      [] c = "8" -> 56 [] c = "9" -> 57 [] c = "-" -> 45 [] c = " " -> 32
      [] c = "G" -> 71 [] c = "A" -> 65 [] c = "T" -> 84 [] c = "R" -> 82
      [] c = "U" -> 85 [] c = "E" -> 69 [] c = "F" -> 70 [] c = "L" -> 76
      [] c = "S" -> 83 [] c = "B" -> 66
      [] c = "g" -> 103 [] c = "a" -> 97 [] c = "t" -> 116 [] c = "r" -> 114
      [] c = "u" -> 117 [] c = "e" -> 101 [] c = "f" -> 102 [] c = "l" -> 108
      [] c = "s" -> 115 [] c = "b" -> 98
      [] c = "[" -> 91 [] c = "]" -> 93 [] c = "{" -> 123 [] c = "}" -> 125
      [] OTHER -> 63

LowerChar(c) ==
    CASE c = "G" -> "g" [] c = "A" -> "a" [] c = "T" -> "t" [] c = "R" -> "r"
      [] c = "U" -> "u" [] c = "E" -> "e" [] c = "F" -> "f" [] c = "L" -> "l"
      [] c = "S" -> "s" [] c = "B" -> "b" [] OTHER -> c

UpperChar(c) ==
    CASE c = "g" -> "G" [] c = "a" -> "A" [] c = "t" -> "T" [] c = "r" -> "R"
      [] c = "u" -> "U" [] c = "e" -> "E" [] c = "f" -> "F" [] c = "l" -> "L"
      [] c = "s" -> "S" [] c = "b" -> "B" [] OTHER -> c

ToLower(s) == [i \in 1..Len(s) |-> LowerChar(s[i])]

ToUpper(s) == [i \in 1..Len(s) |-> UpperChar(s[i])]

\* String.prototype.trim for the blank of the model
RECURSIVE Trim(_)
Trim(s) ==
    IF s = <<>> THEN s
    ELSE IF Head(s) = " " THEN Trim(Tail(s))
    ELSE IF s[Len(s)] = " " THEN Trim(SubSeq(s, 1, Len(s) - 1))
    ELSE s

RECURSIVE StrLess(_, _)
StrLess(s, t) ==
    IF t = <<>> THEN FALSE
    ELSE IF s = <<>> THEN TRUE
    ELSE IF CharCode(Head(s)) # CharCode(Head(t))
         THEN CharCode(Head(s)) < CharCode(Head(t))
         ELSE StrLess(Tail(s), Tail(t))

\* s contains t as a substring
StrContains(s, t) ==
    \E i \in 0..(Len(s) - Len(t)) : SubSeq(s, i + 1, i + Len(t)) = t

\* /^-?\d+(\.\d+)?$/ restricted to the characters of the model (no ".")
IsNumericString(s) ==
    LET body == IF s # <<>> /\ Head(s) = "-" THEN Tail(s) ELSE s
    IN  body # <<>> /\ \A i \in 1..Len(body) : body[i] \in Digits

RECURSIVE DigitsValue(_)
DigitsValue(s) ==
    IF s = <<>> THEN 0
    ELSE 10 * DigitsValue(SubSeq(s, 1, Len(s) - 1)) + (CharCode(s[Len(s)]) - 48)

\* Number(s) for a numeric string
ToNumber(s) ==
    LET t == Trim(s)
    IN  IF Head(t) = "-" THEN 0 - DigitsValue(Tail(t)) ELSE DigitsValue(t)

\* ------------------------------------------------------------ the table

RowIds == DOMAIN rows

Existing == {i \in RowIds : rows[i].st # "gone"}

\* rows are created in id order, so createdAt is modelled by the id
FieldValue(i, field) ==
    CASE field = "number" -> rows[i].number
      [] OTHER -> i

\* the row a sorts strictly before the row b on one sort key
KeyLess(a, b, key) ==
    LET lt == IF key.field \in {"title", "author"}
              THEN StrLess(rows[a][key.field], rows[b][key.field])
              ELSE FieldValue(a, key.field) < FieldValue(b, key.field)
        gt == IF key.field \in {"title", "author"}
              THEN StrLess(rows[b][key.field], rows[a][key.field])
              ELSE FieldValue(b, key.field) < FieldValue(a, key.field)
    IN  IF key.dir = "asc" THEN lt ELSE gt

\* strictly before under an ORDER BY list (a sequence of [field, dir])
RECURSIVE RowBefore(_, _, _)
RowBefore(a, b, orderBy) ==
    IF orderBy = <<>> THEN FALSE
    ELSE IF KeyLess(a, b, Head(orderBy)) THEN TRUE
    ELSE IF KeyLess(b, a, Head(orderBy)) THEN FALSE
    ELSE RowBefore(a, b, Tail(orderBy))

\* Every order in which the database may return the rows of S for an ORDER BY
\* list: rows the list does not separate come in an unspecified order.
RECURSIVE Orderings(_, _)
Orderings(S, orderBy) ==
    IF S = {} THEN {<<>>}
    ELSE UNION { { <<m>> \o t : t \in Orderings(S \ {m}, orderBy) } :
                 m \in {x \in S : \A y \in S : ~RowBefore(y, x, orderBy)} }

\* ---------------------------------------------------- the where predicate
\* A condition is [op, str, num, isNum, mode]; a where clause is
\* [deletedAtNull, fields (key -> condition), hasOR, OR (sequence of
\* [key, cond])].

NoFields == [k \in {} |-> 0]

PlainWhere == [deletedAtNull |-> TRUE, fields |-> NoFields,
               hasOR |-> FALSE, OR |-> <<>>]

\* what the database answers for one condition on one column of a row
CondHolds(i, key, cond) ==
    IF key = "number"
    THEN cond.op = "equals" /\ cond.isNum /\ rows[i].number = cond.num
    ELSE LET col == rows[i][key]
         IN  CASE cond.op = "equals" -> (~cond.isNum) /\ col = cond.str
               [] cond.op = "contains" ->
                    IF cond.mode = "insensitive"
                    THEN StrContains(ToLower(col), ToLower(cond.str))
                    ELSE StrContains(col, cond.str)
               [] OTHER -> FALSE

Matches(i, where) ==
    /\ rows[i].st # "gone"
    /\ where.deletedAtNull => rows[i].st = "live"
    /\ \A k \in DOMAIN where.fields : CondHolds(i, k, where.fields[k])
    /\ where.hasOR =>
         \E j \in 1..Len(where.OR) : CondHolds(i, where.OR[j].key, where.OR[j].cond)

\* a count that ignores the where
DelegateCountEverything(where) == Cardinality(Existing)

\* delegate.count({ where })
DelegateCount(where) == Cardinality({i \in RowIds : Matches(i, where)})

\* delegate.findMany({ where, orderBy, cursor, skip, take }) once the database
\* has ordered the table as ord.  a.cursor = 0: no cursor; a.hasTake = FALSE:
\* no limit.  A negative take scans backwards from the cursor and the rows
\* come back in ORDER BY order.  The cursor row is located in the table
\* whether or not it satisfies where; a cursor row that is not in the table
\* yields no rows.
DelegateFindMany(ord, a) ==
    LET back == a.hasTake /\ a.take < 0
        scan == IF back THEN Reverse(ord) ELSE ord
        from == IF a.cursor = 0 THEN scan
                ELSE IF a.cursor \in Range(scan)
                     THEN SubSeq(scan, Pos(scan, a.cursor), Len(scan))
                     ELSE <<>>
        hits == SelectSeq(from, LAMBDA i : Matches(i, a.where))
        rest == Drop(hits, a.skip)
        win  == IF a.hasTake THEN Take(rest, Abs(a.take)) ELSE rest
    IN  IF back THEN Reverse(win) ELSE win

FindArgs(where, orderBy, cursor, skip, hasTake, take) ==
    [where |-> where, orderBy |-> orderBy, cursor |-> cursor, skip |-> skip,
     hasTake |-> hasTake, take |-> take]

\* --------------------------------------------------------- cursor codec
\* A JSON value is [kind, id, dir, last]: kind "object" with id = 0 / dir = 0
\* for an absent property, or kind "null".  A text is [parsable, val]; a
\* cursor string is [empty, text].

JsonValue(kind, id, dir, last) ==
    [kind |-> kind, id |-> id, dir |-> dir, last |-> last]

JsonNull == JsonValue("null", 0, 0, FALSE)

\* JSON.stringify
JsonStringify(v) == [parsable |-> TRUE, val |-> v]

\* JSON.parse: ok = FALSE stands for the SyntaxError it throws
JsonParse(t) == [ok |-> t.parsable, val |-> t.val]

GarbageText == [parsable |-> FALSE, val |-> JsonNull]

\* AppUtilities.encode / AppUtilities.decode
Encode(t) == [empty |-> FALSE, text |-> t]

Decode(c) == c.text

EmptyString == [empty |-> TRUE, text |-> GarbageText]

GarbageCursor == [empty |-> FALSE, text |-> GarbageText]

NoLink == [has |-> FALSE, cursor |-> EmptyString]

Link(id, dir) ==
    [has |-> TRUE,
     cursor |-> Encode(JsonStringify(JsonValue("object", id, dir, FALSE)))]

\* ------------------------------------------------------------- results

NoMeta == [itemCount |-> 0, totalItems |-> 0, itemsPerPage |-> 0,
           totalPages |-> 0, currentPage |-> 0]

NoCursors == [first |-> NoLink, previous |-> NoLink, next |-> NoLink,
              last |-> NoLink, hasNext |-> FALSE, hasPrevious |-> FALSE]

Result(kind, items, meta, cursors, totalCount, error) ==
    [kind |-> kind, items |-> items, meta |-> meta, cursors |-> cursors,
     totalCount |-> totalCount, error |-> error]

NoResult == Result("none", <<>>, NoMeta, NoCursors, 0, "")

Thrown(error) == Result("error", <<>>, NoMeta, NoCursors, 0, error)

\* one query sent to the data layer
Query(op, a) == [op |-> op, a |-> a]

CountQuery(where) == Query("count", FindArgs(where, <<>>, 0, 0, FALSE, 0))

\* ------------------------------------------------------- request params
\* params.given is the set of properties the caller supplied.

Param(p, f, default) == IF f \in p.given THEN p[f] ELSE default

Params(given, size, cursor, paginationType, page, direction, isPaginated, orderBy) ==
    [given |-> given, size |-> size, cursor |-> cursor,
     paginationType |-> paginationType, page |-> page,
     direction |-> direction, isPaginated |-> isPaginated,
     orderBy |-> orderBy]

\* isPaginated is a boolean or a string: [type, text]
BoolVal(b) == [type |-> "boolean", text |-> IF b THEN "true" ELSE "false"]

StrVal(t) == [type |-> "string", text |-> t]

\* String.prototype.toLowerCase on the texts of the model
LowerText(t) ==
    CASE t = "FALSE" -> "false" [] t = "False" -> "false"
      [] t = "TRUE" -> "true" [] OTHER -> t

\* JavaScript truthiness of a boolean or a string
Truthy(v) == IF v.type = "boolean" THEN v.text = "true" ELSE v.text # ""

\* orderBy is a string, [kind |-> "string", field, dir], or an object
\* { field: dir }, [kind |-> "object", field, dir]
OrderString(field) == [kind |-> "string", field |-> field, dir |-> "asc"]

OrderObject(field, dir) == [kind |-> "object", field |-> field, dir |-> dir]

SortKey(field, dir) == [field |-> field, dir |-> dir]

\* ------------------------------------------------------ findManyPaginate
\* Every handler yields the set of outcomes [resp, queries, mapped] the call
\* can have, one per order in which the database may return the rows; mapped
\* is the sequence of rows mapResults hands to a dataMapper, when the caller
\* supplies one, in the order of the invocations.

Outcome(r, q, m) == [resp |-> r, queries |-> q, mapped |-> m]

\* requestedOrderBy.replace(/[^a-zA-Z0-9_]/g, '') on the names of the model
Sanitize(field) ==
    CASE field = "ti.tle" -> "title" [] OTHER -> field

\* the orderBy computed by findManyPaginate
ResolveOrderBy(params) ==
    LET requested == Param(params, "orderBy", OrderString("createdAt"))
        direction == Param(params, "direction", "desc")
        sanitized == IF requested.kind = "string"
                     THEN Sanitize(requested.field) ELSE ""
    IN  IF sanitized # ""
        THEN <<SortKey(sanitized, direction)>>
        ELSE IF requested.kind = "object"
             THEN <<SortKey(requested.field, requested.dir)>>
             ELSE <<SortKey("createdAt", direction)>>

StableSortSuffixAscending(direction) == <<SortKey("id", "asc")>>

\* the sort keys handleCursorPagination appends to the orderBy
StableSortSuffix(direction) == <<SortKey("id", direction)>>

CursorSkipNothing(d) == 0

\* the skip handleCursorPagination sends with a decoded cursor
CursorSkip(d) == IF d.id # 0 THEN 1 ELSE 0

\* the take handleCursorPagination sends with a decoded cursor
CursorTake(d, size, totalCount) ==
    (IF d.last /\ size # 0 /\ totalCount % size # 0
     THEN totalCount % size
     ELSE size + 1) * d.dir

HasNextOf(d, n, size) == d.dir = -1 \/ n > size

HasPreviousOf(d, n, size) == d.dir = 1 \/ (d.id # 0 /\ n > size)

TrimExtraAtEnd(results, d, size) ==
    IF Len(results) > size
    THEN SubSeq(results, 1, Len(results) - 1)
    ELSE results

\* the rows generateCursorLinks keeps of the fetched ones
TrimExtra(results, d, size) ==
    IF Len(results) > size
    THEN IF d.dir = 1 \/ d.dir = 0
         THEN SubSeq(results, 1, Len(results) - 1)
         ELSE Tail(results)
    ELSE results

GenerateCursorLinks(results, size, d, totalCount) ==
    IF results = <<>>
    THEN Result("cursor", <<>>, NoMeta, NoCursors, totalCount, "")
    ELSE LET hasPrevious == HasPreviousOf(d, Len(results), size)
             hasNext     == HasNextOf(d, Len(results), size)
             kept        == TrimExtra(results, d, size)
             firstId     == IF kept = <<>> THEN 0 ELSE kept[1]
             lastId      == IF kept = <<>> THEN 0 ELSE kept[Len(kept)]
         IN  Result("cursor", kept, NoMeta,
                    [first    |-> IF hasPrevious THEN Link(firstId, 1) ELSE NoLink,
                     previous |-> IF hasPrevious THEN Link(firstId, -1) ELSE NoLink,
                     next     |-> IF hasNext THEN Link(lastId, 1) ELSE NoLink,
                     last     |-> IF hasNext THEN Link(lastId, -1) ELSE NoLink,
                     hasNext  |-> hasNext,
                     hasPrevious |-> hasPrevious],
                    totalCount, "")

EmptyDecoded == JsonValue("object", 0, 0, FALSE)

CursorRejectedNever(cursor) == FALSE

\* the cursors for which the try block of handleCursorPagination throws:
\* JSON.parse fails, or the parsed value is null and reading its id fails
CursorRejected(cursor) ==
    /\ ~cursor.empty
    /\ \/ ~JsonParse(Decode(cursor)).ok
       \/ JsonParse(Decode(cursor)).val.kind = "null"

\* the cursors that parse to a value without the property dir (dir = 0 in the
\* model): the take is a number times undefined, which is NaN, and the data
\* layer refuses a findMany whose take is not an integer.  The query is sent
\* outside the try block, so the refusal is not turned into a
\* NotAcceptableException.
TakeIsNaN(cursor) ==
    /\ ~cursor.empty
    /\ JsonParse(Decode(cursor)).ok
    /\ JsonParse(Decode(cursor)).val.kind # "null"
    /\ JsonParse(Decode(cursor)).val.dir = 0

HandleCursorPagination(args, size, cursor, direction, orderBy, totalCount) ==
    LET parsed == JsonParse(Decode(cursor))
        d      == IF cursor.empty THEN EmptyDecoded ELSE parsed.val
        sorted == orderBy \o StableSortSuffix(direction)
        a      == IF cursor.empty
                  THEN FindArgs(args.where, sorted, 0, 0, TRUE, size + 1)
                  ELSE FindArgs(args.where, sorted, d.id, CursorSkip(d),
                                TRUE, CursorTake(d, size, totalCount))
    IN  IF CursorRejected(cursor)
        THEN {Outcome(Thrown("NotAcceptableException"), <<>>, <<>>)}
        ELSE IF TakeIsNaN(cursor)
        THEN {Outcome(Thrown("PrismaClientValidationError"),
                      <<Query("findMany", a)>>, <<>>)}
        ELSE {LET results == DelegateFindMany(ord, a)
              IN  Outcome(GenerateCursorLinks(results, size, d, totalCount),
                          <<Query("findMany", a)>>, results) :
              ord \in Orderings(Existing, a.orderBy)}

PageSkipOneTooFar(page, take) == page * take

\* the offset of a numbered page
PageSkip(page, take) == (page - 1) * take

HandlePageBasedPagination(args, size, page, orderBy, totalCount) ==
    LET take == IF size # 0 THEN size ELSE DEFAULT_PAGINATION_SIZE
        skip == PageSkip(page, take)
        a    == FindArgs(args.where, orderBy, 0, skip, TRUE, take)
    IN  {LET results == DelegateFindMany(ord, a)
         IN  Outcome(Result("page", results,
                            [itemCount |-> Len(results),
                             totalItems |-> totalCount,
                             itemsPerPage |-> take,
                             totalPages |-> Ceil(totalCount, take),
                             currentPage |-> page],
                            NoCursors, 0, ""),
                     <<Query("findMany", a)>>, results) :
         ord \in Orderings(Existing, a.orderBy)}

PaginationDisabledCaseSensitive(isPaginated) == isPaginated.text = "false"

\* isPaginated.toString().toLowerCase() === 'false'
PaginationDisabled(isPaginated) == LowerText(isPaginated.text) = "false"

FindManyPaginate(args, params) ==
    LET size           == Param(params, "size", DEFAULT_PAGINATION_SIZE)
        cursor         == Param(params, "cursor", EmptyString)
        paginationType == Param(params, "paginationType", "page")
        page           == Param(params, "page", 1)
        direction      == Param(params, "direction", "desc")
        isPaginated    == Param(params, "isPaginated", StrVal("true"))
        orderBy        == ResolveOrderBy(params)
        totalCount     == DelegateCount(args.where)
        all            == FindArgs(args.where, orderBy, 0, 0, FALSE, 0)
        paged          == IF paginationType = "page"
                          THEN HandlePageBasedPagination(args, size, page,
                                                         orderBy, totalCount)
                          ELSE HandleCursorPagination(args, size, cursor,
                                                      direction, orderBy,
                                                      totalCount)
    IN  IF PaginationDisabled(isPaginated)
        THEN {LET results == DelegateFindMany(ord, all)
              IN  Outcome(Result("items", results, NoMeta, NoCursors, 0, ""),
                          <<Query("findMany", all)>>, results) :
              ord \in Orderings(Existing, orderBy)}
        ELSE {Outcome(o.resp, <<CountQuery(args.where)>> \o o.queries,
                      o.mapped) :
              o \in paged}

\* ------------------------------------------------------------ the client
\* A client of a list endpoint: it asks for the first cursor page and follows
\* the links of the page it holds, asks for numbered pages, or switches
\* pagination off.

Titles == {<<"G">>, <<"A">>}

DefaultAuthor == <<"a">>

Tables(states) ==
    {[i \in 1..MaxRows |-> [title |-> t[i].title, number |-> i,
                            author |-> DefaultAuthor, st |-> t[i].st]] :
     t \in [1..MaxRows -> [title : Titles, st : states]]}

OrderByChoices ==
    {OrderString("title"), OrderString("ti.tle"), OrderString(""),
     OrderObject("title", "asc"), OrderObject("title", "desc")}

BaseParams ==
    {Params(g, s, EmptyString, "cursor", 1, d, StrVal("true"), o) :
       g \in SUBSET {"size", "direction", "orderBy"},
       s \in 1..MaxSize, d \in {"asc", "desc"}, o \in OrderByChoices}

\* two parameter records that supply the same values are the same request
Canonical(p) ==
    Params(p.given,
           IF "size" \in p.given THEN p.size ELSE 0,
           IF "cursor" \in p.given THEN p.cursor ELSE EmptyString,
           IF "paginationType" \in p.given THEN p.paginationType ELSE "",
           IF "page" \in p.given THEN p.page ELSE 0,
           IF "direction" \in p.given THEN p.direction ELSE "",
           IF "isPaginated" \in p.given THEN p.isPaginated ELSE StrVal(""),
           IF "orderBy" \in p.given THEN p.orderBy ELSE OrderString(""))

With(p, f, v) == [[p EXCEPT ![f] = v] EXCEPT !.given = @ \cup {f}]

ListArgs == [where |-> PlainWhere]

NoRequest == [act |-> "none", params |-> Canonical(Params({}, 0, EmptyString, "", 0, "", StrVal(""), OrderString("")))]

\* no mapResults call under way
EmptyAccumulator == [last |-> 0, from |-> {}]

NoMapping == [rows |-> <<>>, pc |-> <<>>, cachedData |-> EmptyAccumulator,
              received |-> <<>>, settled |-> <<>>]

\* the auth service before any request
NoAnswer == [op |-> "none", ok |-> FALSE, error |-> "", message |-> "",
             email |-> "", token |-> <<>>, taken |-> FALSE,
             afterLogout |-> FALSE, usersBefore |-> {}, auditBefore |-> 0]

\* the hymn service before any request; no verses, no choruses
NoReply == [op |-> "none", id |-> 0, ok |-> FALSE, error |-> "",
            before |-> <<>>, roundTrip |-> FALSE]

NoLibrary == [verses |-> <<>>, choruses |-> <<>>, now |-> 0, calls |-> 0,
              tx |-> <<>>,
              deletes |-> <<>>, undo |-> <<>>, last |-> NoReply]

NoAuth == [users |-> {}, sessions |-> {}, audit |-> <<>>, now |-> 0,
           issued |-> {}, loggedOut |-> {}, last |-> NoAnswer]

InitClient ==
    /\ base \in {Canonical(p) : p \in BaseParams}
    /\ req = NoRequest
    /\ resp = NoResult
    /\ queries = <<>>
    /\ hist = <<>>
    /\ trav = <<>>
    /\ chain = "none"
    /\ stable = {}
    /\ cache = {}
    /\ writes = 0
    /\ mapper = NoMapping
    /\ auth = NoAuth
    /\ lib = NoLibrary

Init ==
    /\ rows \in Tables({"live", "soft"})
    /\ InitClient
    /\ input = <<>>

\* the client remembers its three latest calls
Remember(h, e) ==
    IF Len(h) < 3 THEN Append(h, e) ELSE Append(Tail(h), e)

\* one findManyPaginate call of the client
Call(act, params) ==
    \E o \in FindManyPaginate(ListArgs, params) :
       /\ req' = [act |-> act, params |-> Canonical(params)]
       /\ resp' = o.resp
       /\ queries' = o.queries

CursorCall(act, params) ==
    /\ Call(act, params)
    /\ hist' = Remember(hist, [act |-> act, resp |-> resp'])
    /\ UNCHANGED <<rows, base, cache, writes, input, mapper, auth, lib>>

OtherCall(act, params) ==
    /\ Call(act, params)
    /\ hist' = <<>>
    /\ trav' = <<>>
    /\ chain' = "none"
    /\ stable' = {}
    /\ UNCHANGED <<rows, base, cache, writes, input, mapper, auth, lib>>

Matching == {i \in RowIds : Matches(i, ListArgs.where)}

FirstPage ==
    /\ CursorCall("first page", With(base, "paginationType", "cursor"))
    /\ trav' = resp'.items
    /\ chain' = "fwd"
    /\ stable' = Matching

FollowNext ==
    /\ resp.kind = "cursor" /\ resp.cursors.next.has
    /\ CursorCall("next", With(With(base, "paginationType", "cursor"),
                               "cursor", resp.cursors.next.cursor))
    /\ trav' = IF chain = "fwd" THEN trav \o resp'.items ELSE <<>>
    /\ UNCHANGED <<chain, stable>>

FollowLink(act, link) ==
    /\ resp.kind = "cursor" /\ link.has
    /\ CursorCall(act, With(With(base, "paginationType", "cursor"),
                            "cursor", link.cursor))
    /\ trav' = <<>>
    /\ chain' = "none"
    /\ stable' = {}

FollowPrevious == FollowLink("previous", resp.cursors.previous)

FollowFirst == FollowLink("first", resp.cursors.first)

FollowLast == FollowLink("last", resp.cursors.last)

\* a cursor the engine did not hand out
BadCursors == {GarbageCursor, Encode(JsonStringify(JsonNull)), EmptyString}

BadCursorRequest ==
    \E c \in BadCursors :
       OtherCall("bad cursor", With(With(base, "paginationType", "cursor"),
                                    "cursor", c))

Next ==
    \/ FirstPage
    \/ FollowNext
    \/ FollowPrevious
    \/ FollowFirst
    \/ FollowLast
    \/ BadCursorRequest

Spec == Init /\ [][Next]_vars

\* --------------------------------------------- single calls of the engine
\* One call per behaviour, with parameters of every shape.

PageRequest ==
    /\ req.act = "none"
    /\ \E s \in 0..MaxSize, p \in 1..MaxPage, g \in SUBSET {"paginationType", "size"} :
          OtherCall("page", [With(With(With(base, "size", s), "page", p),
                                  "paginationType", "page")
                             EXCEPT !.given = (@ \ {"paginationType", "size"}) \cup g])

IsPaginatedChoices ==
    {StrVal("false"), StrVal("FALSE"), StrVal("False"), BoolVal(FALSE),
     StrVal("true"), BoolVal(TRUE)}

Unpaginated ==
    /\ req.act = "none"
    /\ \E v \in IsPaginatedChoices, t \in {"page", "cursor"},
          c \in {EmptyString, GarbageCursor}, p \in {1, MaxPage},
          g \in SUBSET {"size"} :
          OtherCall("isPaginated",
                    [With(With(With(With(With(base, "isPaginated", v),
                                         "paginationType", t), "cursor", c),
                               "page", p), "size", 1)
                     EXCEPT !.given = (@ \ {"size"}) \cup g])

\* ten matching rows with titles "0" .. "9"
TenRows ==
    [i \in 1..10 |->
        [title |-> <<CHOOSE c \in Digits : CharCode(c) = 47 + i>>,
         number |-> i, author |-> DefaultAuthor, st |-> "live"]]

InitSingle ==
    /\ rows \in Tables({"live", "soft"}) \cup {TenRows}
    /\ InitClient
    /\ "size" \notin base.given
    /\ input = <<>>

\* the cursors a caller can present: none, an unparsable one, and encoded
\* objects with the properties id, dir and last
CallerCursors ==
    {EmptyString, GarbageCursor} \cup
    {Encode(JsonStringify(JsonValue("object", i, d, l))) :
        i \in 1..MaxRows, d \in {1, -1}, l \in BOOLEAN}

\* one cursor-mode call with a cursor of the caller's making
CursorRequest ==
    /\ req.act = "none"
    /\ \E s \in 1..MaxSize, c \in CallerCursors :
          OtherCall("cursor", With(With(With(base, "size", s), "cursor", c),
                                   "paginationType", "cursor"))

\* cursors that decode to valid JSON of the wrong shape: {}, {"id": i} and a
\* JSON scalar, none of which has the property dir
MalformedCursors ==
    {Encode(JsonStringify(JsonValue("object", i, 0, FALSE))) : i \in 0..1}
    \cup {Encode(JsonStringify(JsonValue("scalar", 0, 0, FALSE)))}

MalformedCursorRequest ==
    /\ req.act = "none"
    /\ \E s \in 1..MaxSize, c \in MalformedCursors :
          OtherCall("malformed cursor",
                    With(With(With(base, "size", s), "cursor", c),
                         "paginationType", "cursor"))

\* one page- or cursor-mode call with a dataMapper: input records the rows
\* the dataMapper was invoked with
MappedRequest ==
    /\ req.act = "none"
    /\ \E s \in 1..MaxSize, t \in {"page", "cursor"}, p \in 1..2 :
       \E o \in FindManyPaginate(ListArgs,
                    With(With(With(base, "size", s), "page", p),
                         "paginationType", t)) :
          /\ req' = [act |-> "mapped",
                     params |-> Canonical(With(With(With(base, "size", s),
                                    "page", p), "paginationType", t))]
          /\ resp' = o.resp
          /\ queries' = o.queries
          /\ input' = o.mapped
    /\ UNCHANGED <<rows, base, hist, trav, chain, stable, cache, writes,
                   mapper, auth, lib>>

NextSingle ==
    \/ PageRequest
    \/ Unpaginated
    \/ CursorRequest
    \/ MalformedCursorRequest
    \/ MappedRequest

SpecSingle == InitSingle /\ [][NextSingle]_vars

\* ===================================================================
\* Properties of cursor pagination (specification Spec)
\* ===================================================================

BaseDirection == IF "direction" \in base.given THEN base.direction ELSE "desc"

\* the sort key the client asked for
BaseSortKey ==
    IF "orderBy" \notin base.given THEN SortKey("createdAt", BaseDirection)
    ELSE IF base.orderBy.kind = "object"
         THEN SortKey(base.orderBy.field, base.orderBy.dir)
         ELSE IF base.orderBy.field \in {"title", "ti.tle"}
              THEN SortKey("title", BaseDirection)
              ELSE SortKey("createdAt", BaseDirection)

\* a comes before b in the total order: sort key first, ties broken by id
ComesBefore(a, b) ==
    \/ KeyLess(a, b, BaseSortKey)
    \/ /\ ~KeyLess(b, a, BaseSortKey)
       /\ IF BaseDirection = "asc" THEN a < b ELSE b < a

\* the matching rows in that total order
ExpectedOrder ==
    [k \in 1..Cardinality(Matching) |->
        CHOOSE i \in Matching :
           Cardinality({j \in Matching : ComesBefore(j, i)}) = k - 1]

IsPrefix(s, t) == Len(s) <= Len(t) /\ s = SubSeq(t, 1, Len(s))

SharedSortValue ==
    \E i, j \in Matching :
       i # j /\ ~KeyLess(i, j, BaseSortKey) /\ ~KeyLess(j, i, BaseSortKey)

\* C1: a forward cursor traversal (no cursor, then each `next` cursor) over
\* an unchanging table returns the matching rows in the total order (sort
\* key, ties by id), each exactly once, and hasNext is true on every page
\* except the last.
C1_ForwardTraversal ==
    (chain = "fwd" /\ resp.kind = "cursor") =>
        /\ IsPrefix(trav, ExpectedOrder)
        /\ resp.cursors.hasNext <=> Len(trav) < Len(ExpectedOrder)
        /\ resp.cursors.next.has <=> resp.cursors.hasNext

C1_Witness ==
    /\ chain = "fwd" /\ resp.kind = "cursor"
    /\ Len(hist) = 3 /\ hist[3].act = "next" /\ hist[2].act = "next"
    /\ ~resp.cursors.hasNext
    /\ SharedSortValue
    /\ trav = ExpectedOrder

\* the table of the tie-break example: exactly three matching rows, ids
\* 1 < 2 < 3, all with the same title
ThreeGraces ==
    /\ Matching = {1, 2, 3}
    /\ \A i \in Matching : rows[i].title = <<"G">>

TitleAscending(given) ==
    /\ base.given = given
    /\ base.size = 2
    /\ base.orderBy = OrderObject("title", "asc")

FirstPageHeld == Len(hist) = 1 /\ hist[1].act = "first page"

SecondPageHeld ==
    Len(hist) = 2 /\ hist[1].act = "first page" /\ hist[2].act = "next"

PageIs(items, hasNext) ==
    resp.kind = "cursor" /\ resp.items = items /\ resp.cursors.hasNext = hasNext

\* C2 as stated: with orderBy = {title: "asc"}, size = 2 and nothing else,
\* over three rows titled alike, the first page is [1, 2] with hasNext and
\* the page after it is [3] without.
C2_AsStated ==
    (ThreeGraces /\ TitleAscending({"size", "orderBy"})) =>
        /\ FirstPageHeld => PageIs(<<1, 2>>, TRUE)
        /\ SecondPageHeld => PageIs(<<3>>, FALSE)

\* C2 (amended): the ties are broken by id in the request's direction, which
\* defaults to "desc": with size and orderBy only, the pages are [3, 2] with
\* hasNext and then [1] without; with direction = "asc" supplied as well they
\* are [1, 2] and then [3].
C2_TieBreakFollowsDirection ==
    /\ (ThreeGraces /\ TitleAscending({"size", "orderBy"})) =>
          /\ FirstPageHeld => PageIs(<<3, 2>>, TRUE)
          /\ SecondPageHeld => PageIs(<<1>>, FALSE)
    /\ (ThreeGraces /\ TitleAscending({"size", "orderBy", "direction"})
          /\ base.direction = "asc") =>
          /\ FirstPageHeld => PageIs(<<1, 2>>, TRUE)
          /\ SecondPageHeld => PageIs(<<3>>, FALSE)

C2_Witness ==
    /\ ThreeGraces /\ TitleAscending({"size", "orderBy"})
    /\ SecondPageHeld /\ PageIs(<<1>>, FALSE)
    /\ hist[1].resp.items = <<3, 2>>

\* C3: over an unchanging table, when P2 was reached through the `next`
\* cursor of P1, the `previous` cursor of P2 returns the rows of P1 in the
\* same order with hasNext = TRUE, and hasPrevious exactly when some matching
\* row comes before the first row returned.
C3_PreviousUndoesNext ==
    (Len(hist) = 3 /\ hist[2].act = "next" /\ hist[3].act = "previous") =>
        /\ hist[3].resp.kind = "cursor"
        /\ hist[3].resp.items = hist[1].resp.items
        /\ hist[3].resp.cursors.hasNext
        /\ hist[3].resp.cursors.hasPrevious <=>
             \E j \in Matching : ComesBefore(j, hist[3].resp.items[1])

C3_Witness ==
    /\ Len(hist) = 3 /\ hist[2].act = "next" /\ hist[3].act = "previous"
    /\ hist[1].act = "next"
    /\ hist[3].resp.cursors.hasPrevious
    /\ Len(hist[3].resp.items) = base.size
    /\ SharedSortValue

CursorOfRequest == req.params.cursor

Rejected ==
    /\ resp = Thrown("NotAcceptableException")
    /\ \A k \in 1..Len(queries) : queries[k].op # "findMany"

\* C5 as stated: every cursor string that cannot be parsed as JSON makes the
\* cursor-mode call fail with NotAcceptableException without a data query.
C5_AsStated ==
    (req.act = "bad cursor" /\ ~JsonParse(Decode(CursorOfRequest)).ok) =>
        Rejected

\* C5 (amended): every non-empty cursor string that cannot be parsed as JSON
\* makes the cursor-mode call fail with NotAcceptableException without a data
\* query; the empty string counts as no cursor and yields the first page.
C5_UnparsableCursorRejected ==
    (req.act = "bad cursor" /\ ~JsonParse(Decode(CursorOfRequest)).ok) =>
        IF CursorOfRequest.empty
        THEN resp.kind = "cursor" /\ IsPrefix(resp.items, ExpectedOrder)
        ELSE Rejected

C5_Witness ==
    /\ req.act = "bad cursor" /\ CursorOfRequest = GarbageCursor
    /\ Rejected
    /\ Matching # {}

\* the size of the client's pages
BaseSize == Param(base, "size", DEFAULT_PAGINATION_SIZE)

\* C30: over an unchanging table, following the `first` cursor of a page
\* returns the rows a request without cursor returns, following the `last`
\* cursor returns the final rows of the ordering, and neither returns an
\* empty page while matching rows exist.
C30_FirstAndLastLinks ==
    /\ req.act = "first" =>
          /\ resp.kind = "cursor"
          /\ resp.items = Take(ExpectedOrder, BaseSize)
    /\ req.act = "last" =>
          /\ resp.kind = "cursor"
          /\ resp.items = Drop(ExpectedOrder,
                               Len(ExpectedOrder) - Len(resp.items))
          /\ ~resp.cursors.hasNext
    /\ (req.act \in {"first", "last"} /\ Matching # {}) => resp.items # <<>>

\* the `first` cursor of the last page led to an empty page
C30_FirstLeadsNowhere ==
    /\ req.act = "first"
    /\ Matching # {}
    /\ resp.kind = "cursor" /\ resp.items = <<>>

\* the `last` cursor of the first page led back before it
C30_LastLeadsNowhere ==
    /\ req.act = "last"
    /\ Matching # {}
    /\ resp.kind = "cursor" /\ resp.items = <<>>

\* ===================================================================
\* A client walking the numbered pages (specification SpecPages)
\* ===================================================================

Occurrences(s, x) == Cardinality({k \in 1..Len(s) : s[k] = x})

\* the client asks for page 1
FirstNumberedPage ==
    /\ Call("page 1", With(With(base, "paginationType", "page"), "page", 1))
    /\ trav' = resp'.items
    /\ chain' = "pages"
    /\ hist' = <<>>
    /\ stable' = Matching
    /\ UNCHANGED <<rows, base, cache, writes, input, mapper, auth, lib>>

\* the client asks for the page after the one it holds
NextNumberedPage ==
    /\ chain = "pages" /\ resp.kind = "page"
    /\ resp.meta.currentPage < resp.meta.totalPages
    /\ Call("next page", With(With(base, "paginationType", "page"),
                              "page", resp.meta.currentPage + 1))
    /\ trav' = trav \o resp'.items
    /\ UNCHANGED <<rows, base, hist, chain, stable, cache, writes, input,
                   mapper, auth, lib>>

NextPages == FirstNumberedPage \/ NextNumberedPage

SpecPages == Init /\ [][NextPages]_vars

\* the client holds the last of the numbered pages
PagesWalked ==
    /\ chain = "pages" /\ resp.kind = "page"
    /\ resp.meta.currentPage >= resp.meta.totalPages

\* C29: walking the pages 1..totalPages of an unchanging table in page mode
\* returns every matching row exactly once, also when rows share the value
\* of the orderBy field.
C29_PagesPartitionRows ==
    PagesWalked =>
        /\ Len(trav) = Cardinality(Matching)
        /\ \A i \in Matching : Occurrences(trav, i) = 1

\* a walk over rows of one title that returned a row twice
C29_RowRepeated ==
    /\ PagesWalked
    /\ SharedSortValue
    /\ \E i \in Matching : Occurrences(trav, i) = 2

\* ===================================================================
\* Cursor traversal while other requests write to the table
\* (specification SpecWrites)
\* ===================================================================

WriteParams ==
    {Params(g \cup {"size"}, s, EmptyString, "cursor", 1, "asc",
            StrVal("true"), OrderObject("title", "asc")) :
       g \in SUBSET {"direction", "orderBy"}, s \in 1..MaxSize}

InitWrites ==
    /\ rows \in Tables({"live", "soft"})
    /\ InitClient
    /\ base \in {Canonical(p) : p \in WriteParams}
    /\ input = <<>>

\* a write of another request, between two page requests of the traversal
Write(i, row) ==
    /\ chain = "fwd"
    /\ writes < MaxWrites
    /\ writes' = writes + 1
    /\ rows' = [rows EXCEPT ![i] = row]
    /\ stable' = stable \ {i}
    /\ UNCHANGED <<base, req, resp, queries, hist, trav, chain, cache, input, mapper, auth, lib>>

\* CrudService.create: a new row
CrudCreate ==
    \E i \in RowIds, t \in Titles :
       /\ rows[i].st = "gone"
       /\ Write(i, [rows[i] EXCEPT !.title = t, !.st = "live"])

\* CrudService.update setting deletedAt: the row stays in the table and no
\* longer satisfies deletedAt = null
CrudSoftDelete ==
    \E i \in RowIds :
       /\ rows[i].st = "live"
       /\ Write(i, [rows[i] EXCEPT !.st = "soft"])

\* CrudService.delete: the row leaves the table
CrudDelete ==
    \E i \in RowIds :
       /\ rows[i].st # "gone"
       /\ Write(i, [rows[i] EXCEPT !.st = "gone"])

\* the traversal starts once
StartTraversal == chain = "none" /\ FirstPage

NextWrites ==
    \/ StartTraversal
    \/ FollowNext
    \/ CrudCreate
    \/ CrudSoftDelete
    \/ CrudDelete

SpecWrites == InitWrites /\ [][NextWrites]_vars

TraversalEnded ==
    chain = "fwd" /\ resp.kind = "cursor" /\ ~resp.cursors.hasNext

\* C4: when other requests insert or delete rows between the page requests
\* of a forward cursor traversal, every row that matches the query during
\* the whole traversal has been returned exactly once when the traversal
\* ends.
C4_StableUnderWrites ==
    TraversalEnded => \A i \in stable : Occurrences(trav, i) = 1

\* ===================================================================
\* Properties of single calls (specification SpecSingle)
\* ===================================================================

DataQuery == queries[Len(queries)]

\* the least k with k * size >= n
PagesNeeded(n, size) == CHOOSE k \in 0..n : k * size >= n /\ (k = 0 \/ (k - 1) * size < n)

\* C6: a page-mode call with size >= 1 and page >= 1 sends skip =
\* (page - 1) * size and take = size, reports totalPages = ceil(totalCount /
\* size), and returns min(size, max(0, totalCount - (page - 1) * size)) rows,
\* which is also its itemCount; ten rows with size 3 make four pages and page
\* four holds one row.
C6_PageMath ==
    (req.act = "page" /\ "size" \in req.params.given /\ req.params.size >= 1) =>
        LET n    == Cardinality(Matching)
            size == req.params.size
            page == req.params.page
        IN  /\ resp.kind = "page"
            /\ DataQuery.op = "findMany"
            /\ DataQuery.a.hasTake
            /\ DataQuery.a.skip = (page - 1) * size
            /\ DataQuery.a.take = size
            /\ resp.meta.totalPages = PagesNeeded(n, size)
            /\ Len(resp.items) = Min2(size, Max2(0, n - (page - 1) * size))
            /\ resp.meta.itemCount = Len(resp.items)
            /\ (n = 10 /\ size = 3) => resp.meta.totalPages = 4
            /\ (n = 10 /\ size = 3 /\ page = 4) => Len(resp.items) = 1

C6_Witness ==
    /\ req.act = "page" /\ "size" \in req.params.given
    /\ Cardinality(Matching) = 10
    /\ req.params.size = 3 /\ req.params.page = 4
    /\ resp.meta.totalPages = 4
    /\ Len(resp.items) = 1

\* the rows the count query of the latest call counted
Counted == {i \in RowIds : Matches(i, queries[1].a.where)}

CountQueries == {j \in 1..Len(queries) : queries[j].op = "count"}

PaginatedCall ==
    \/ req.act \in {"page", "cursor"}
    \/ req.act = "isPaginated" /\ ~PaginationDisabled(req.params.isPaginated)

\* the decoded cursor of the latest call
DecodedCursor == JsonParse(Decode(req.params.cursor)).val

\* C18: a paginated call, in page or cursor mode, sends exactly one count
\* query, sends it first, with the where the data query gets; the count it
\* answers is the totalCount (totalItems) of the result and the one the take
\* of a `last` cursor is computed from.
C18_OneCountBeforeData ==
    PaginatedCall =>
        /\ Cardinality(CountQueries) = 1
        /\ queries[1].op = "count"
        /\ \A j \in 1..Len(queries) :
              queries[j].op = "findMany" =>
                 j > 1 /\ queries[j].a.where = queries[1].a.where
        /\ resp.kind \in {"page", "cursor", "error"}
        /\ resp.kind = "page" => resp.meta.totalItems = Cardinality(Counted)
        /\ resp.kind = "cursor" => resp.totalCount = Cardinality(Counted)
        /\ (/\ resp.kind = "cursor"
            /\ ~req.params.cursor.empty
            /\ DecodedCursor.last
            /\ Cardinality(Counted) % req.params.size # 0) =>
               DataQuery.a.take =
                  (Cardinality(Counted) % req.params.size) * DecodedCursor.dir

C18_Witness ==
    /\ req.act = "cursor"
    /\ resp.kind = "cursor"
    /\ ~req.params.cursor.empty
    /\ DecodedCursor.last
    /\ req.params.size = 2
    /\ Cardinality(Counted) % req.params.size # 0
    /\ Len(queries) = 2
    /\ \E i \in RowIds : ~Matches(i, queries[1].a.where)

\* the data queries of the latest call whose take is not a non-zero number
BadTakeQueries ==
    {k \in 1..Len(queries) :
        /\ queries[k].op = "findMany"
        /\ queries[k].a.hasTake
        /\ \/ queries[k].a.take = 0
           \/ TakeIsNaN(req.params.cursor)}

\* C24: a cursor that decodes to valid JSON but not to an object with an id
\* and a dir of 1 or -1 makes the cursor-mode call fail with
\* NotAcceptableException, and no data query with a non-numeric or zero take
\* is sent.
C24_MalformedCursorRejected ==
    req.act = "malformed cursor" =>
        /\ resp = Thrown("NotAcceptableException")
        /\ BadTakeQueries = {}

\* the empty object as cursor reaches the data layer
C24_EmptyObjectReachesDataLayer ==
    /\ req.act = "malformed cursor"
    /\ DecodedCursor = JsonValue("object", 0, 0, FALSE)
    /\ resp = Thrown("PrismaClientValidationError")
    /\ BadTakeQueries # {}

\* C25: the row mapper is invoked exactly once for each row the paginated
\* result returns, in the order of the result, and for no other row; in
\* cursor mode it is not invoked for the extra row fetched beyond the page.
C25_MapperSeesReturnedRows ==
    (req.act = "mapped" /\ resp.kind \in {"page", "cursor"}) =>
        input = resp.items

\* a cursor page that was cut to its size: the extra row went to the mapper
C25_ExtraRowMapped ==
    /\ req.act = "mapped"
    /\ resp.kind = "cursor"
    /\ resp.cursors.hasNext
    /\ Len(input) = Len(resp.items) + 1

SaysFalse(v) ==
    v \in {StrVal("false"), StrVal("FALSE"), StrVal("False"), BoolVal(FALSE)}

\* C8: with isPaginated equal to "false" in any letter case or to the
\* boolean false, the call returns every matching row once under pageItems,
\* with no pageMeta, pageCursors or totalCount, whatever size, page and cursor
\* are, and sends no count query.
C8_PaginationDisabled ==
    (req.act = "isPaginated" /\ SaysFalse(req.params.isPaginated)) =>
        /\ resp.kind = "items"
        /\ Range(resp.items) = Matching
        /\ Len(resp.items) = Cardinality(Matching)
        /\ resp.meta = NoMeta /\ resp.cursors = NoCursors
        /\ \A k \in 1..Len(queries) : queries[k].op # "count"

C8_Witness ==
    /\ req.act = "isPaginated"
    /\ req.params.isPaginated = StrVal("FALSE")
    /\ req.params.cursor = GarbageCursor
    /\ req.params.paginationType = "cursor"
    /\ "size" \in req.params.given /\ req.params.size = 1
    /\ Cardinality(Matching) >= 2
    /\ resp.kind = "items" /\ Len(resp.items) = Cardinality(Matching)

\* ===================================================================
\* The Result Merger (specification SpecMerge)
\* ===================================================================
\* A row of an in-memory collection is modelled by its value under the sort
\* key "key": 0 stands for null.

\* sortByOrder(a, b, orderBy) with orderBy = { key: direction }
SortByOrder(a, b, direction) ==
    IF a = 0 /\ b # 0 THEN (IF direction = "asc" THEN -1 ELSE 1)
    ELSE IF a # 0 /\ b = 0 THEN (IF direction = "asc" THEN 1 ELSE -1)
    ELSE IF a = 0 /\ b = 0 THEN 0
    ELSE IF a < b THEN (IF direction = "asc" THEN -1 ELSE 1)
    ELSE IF a > b THEN (IF direction = "asc" THEN 1 ELSE -1)
    ELSE 0

\* Array.prototype.sort with that comparator (a stable sort)
RECURSIVE InsertSorted(_, _, _)
InsertSorted(sorted, x, direction) ==
    IF sorted = <<>> THEN <<x>>
    ELSE IF SortByOrder(x, Head(sorted), direction) < 0
         THEN <<x>> \o sorted
         ELSE <<Head(sorted)>> \o InsertSorted(Tail(sorted), x, direction)

RECURSIVE SortRows(_, _)
SortRows(s, direction) ==
    IF s = <<>> THEN <<>>
    ELSE InsertSorted(SortRows(SubSeq(s, 1, Len(s) - 1), direction),
                      s[Len(s)], direction)

\* Array.prototype.flat
RECURSIVE Flat(_)
Flat(arrays) ==
    IF arrays = <<>> THEN <<>> ELSE Head(arrays) \o Flat(Tail(arrays))

\* Array.prototype.slice(from, to) with 0 <= from <= to
Slice(s, from, to) == SubSeq(s, Min2(from, Len(s)) + 1, Min2(to, Len(s)))

\* !isPaginated
MergeUnpaginated(isPaginated) == ~Truthy(isPaginated)

PaginateMultipleResult(dataArrays, params) ==
    LET isPaginated == Param(params, "isPaginated", BoolVal(TRUE))
        page        == Param(params, "page", 1)
        size        == Param(params, "size", DEFAULT_PAGINATION_SIZE)
        direction   == Param(params, "direction", "desc")
        sortDir     == IF "orderBy" \notin params.given THEN ""
                       ELSE IF params.orderBy.kind = "string" THEN direction
                       ELSE params.orderBy.dir
        flat        == Flat(dataArrays)
        merged      == IF sortDir = "" THEN flat ELSE SortRows(flat, sortDir)
        offset      == (page - 1) * size
        paginated   == Slice(merged, offset, offset + size)
    IN  IF MergeUnpaginated(isPaginated)
        THEN Result("page", merged,
                    [itemCount |-> Len(merged), totalItems |-> Len(merged),
                     itemsPerPage |-> Len(merged), totalPages |-> 1,
                     currentPage |-> 1],
                    NoCursors, 0, "")
        ELSE Result("page", paginated,
                    [itemCount |-> Len(paginated), totalItems |-> Len(merged),
                     itemsPerPage |-> size,
                     totalPages |-> Ceil(Len(merged), size),
                     currentPage |-> page],
                    NoCursors, 0, "")

SeqsUpTo(S, n) == UNION {[1..k -> S] : k \in 0..n}

MergeInputs == {<<a, b>> : a, b \in SeqsUpTo(0..2, MaxMerge)}

MergeParams ==
    {Params(g, s, EmptyString, "", p, d, v, o) :
       g \in {{"isPaginated", "size", "page", "orderBy", "direction"} \ h :
              h \in {{}, {"isPaginated"}, {"size", "page"}, {"orderBy", "direction"},
                     {"direction"}}},
       s \in 1..MaxSize, p \in 1..MaxPage, d \in {"asc", "desc"},
       v \in IsPaginatedChoices,
       o \in {OrderString("key"), OrderObject("key", "asc")}}

InitMerge ==
    /\ rows \in Tables({"live"})
    /\ \A i \in 1..MaxRows : rows[i].title = <<"G">>
    /\ InitClient
    /\ base.given = {}
    /\ input \in MergeInputs

Merge ==
    /\ req.act = "none"
    /\ \E p \in MergeParams :
          /\ req' = [act |-> "merge", params |-> Canonical(p)]
          /\ resp' = PaginateMultipleResult(input, p)
    /\ UNCHANGED <<rows, base, queries, hist, trav, chain, stable, cache,
                   writes, input, mapper, auth, lib>>

SpecMerge == InitMerge /\ [][Merge]_vars

SameRows(s, t) ==
    /\ Len(s) = Len(t)
    /\ \A x \in Range(s) \cup Range(t) : Occurrences(s, x) = Occurrences(t, x)

\* C9: paginateMultipleResult called with isPaginated false, as the boolean
\* false or as the string "false", returns all merged rows as one page:
\* pageItems holds every input row, totalPages = 1 and currentPage = 1,
\* regardless of size and page.
C9_MergeUnpaginated ==
    (req.act = "merge"
       /\ req.params.isPaginated \in {BoolVal(FALSE), StrVal("false")}) =>
        /\ SameRows(resp.items, Flat(input))
        /\ resp.meta.totalPages = 1
        /\ resp.meta.currentPage = 1

\* ===================================================================
\* The Filter Translator
\* ===================================================================
\* Filter values arrive as strings.  A set of filters is a function from the
\* supplied keys to their values; the term is passed beside it, <<>> when
\* none is supplied.  A schema is a sequence of scalar directives
\* "key|operator", held as [key, op].

StrTrue == <<"t", "r", "u", "e">>

StrFalse == <<"f", "a", "l", "s", "e">>

\* /^\d{4}-\d{2}-\d{2}$/ and a date Date.parse accepts
IsDateString(s) ==
    /\ Len(s) = 10
    /\ s[5] = "-" /\ s[8] = "-"
    /\ \A i \in {1, 2, 3, 4, 6, 7, 9, 10} : s[i] \in Digits
    /\ DigitsValue(SubSeq(s, 6, 7)) \in 1..12
    /\ DigitsValue(SubSeq(s, 9, 10)) \in 1..31

\* the texts of the model that JSON.parse turns into an object or an array
IsJsonObjectText(s) == Trim(s) \in {<<"{", "}">>, <<"[", "]">>}

\* inferDataType without the numeric-string check
InferDataTypeNumberLast(value) ==
    IF ToLower(value) \in {StrTrue, StrFalse} THEN "boolean"
    ELSE IF IsJsonObjectText(value) THEN "json"
    ELSE IF IsDateString(value) THEN "date"
    ELSE "string"

\* inferDataType on a string value
InferDataType(value) ==
    IF IsNumericString(Trim(value)) THEN "number"
    ELSE IF ToLower(value) \in {StrTrue, StrFalse} THEN "boolean"
    ELSE IF IsJsonObjectText(value) THEN "json"
    ELSE IF IsDateString(value) THEN "date"
    ELSE "string"

IsTextSearchOperator(op) == op \in {"contains", "startsWith", "endsWith"}

Cond(op, vtype, str, num, mode) ==
    [op |-> op, vtype |-> vtype, str |-> str, num |-> num, mode |-> mode,
     isNum |-> vtype = "number"]

\* createFilterCondition for a string value; a condition is
\* { [op]: value } with the value as the code converts it
CreateFilterCondition(op, value, dataType) ==
    IF IsTextSearchOperator(op) /\ dataType = "string"
    THEN Cond(op, "string", value, 0, "insensitive")
    ELSE IF op \in {"gt", "gte", "lt", "lte"} /\ dataType = "number"
    THEN Cond(op, "number", value, ToNumber(value), "default")
    ELSE IF op \in {"in", "notIn"} /\ dataType = "number"
    THEN Cond(op, "numbers", value, ToNumber(value), "default")
    ELSE IF op = "equals"
    THEN CASE dataType = "number" -> Cond(op, "number", value, ToNumber(value), "default")
           [] dataType = "boolean" -> Cond(op, "boolean", value, 0, "default")
           [] dataType = "date" -> Cond(op, "date", value, 0, "default")
           [] dataType = "json" -> Cond(op, "json", value, 0, "default")
           [] OTHER -> Cond(op, "string", value, 0, "default")
    ELSE IF dataType = "json" /\ op \in {"path", "contains", "containedBy"}
    THEN Cond(op, "json", value, 0, "default")
    ELSE IF dataType = "json" /\ op = "hasKey"
    THEN Cond("path", "strings", value, 0, "default")
    ELSE Cond(op, "string", value, 0, "default")

\* the entries of a query schema: the directive strings 'key|op',
\* 'parent.relation|op' and 'parent:relation|op', and the object entries
\* createEnumFilter builds
Scalar(key, op) ==
    [kind |-> "scalar", key |-> key, parent |-> "", op |-> op, values |-> {}]

OneToOne(parent, relation, op) ==
    [kind |-> "one", key |-> relation, parent |-> parent, op |-> op,
     values |-> {}]

OneToMany(parent, relation, op) ==
    [kind |-> "many", key |-> relation, parent |-> parent, op |-> op,
     values |-> {}]

CreateEnumFilter(key, enumValues) ==
    [kind |-> "enum", key |-> key, parent |-> "", op |-> "",
     values |-> enumValues]

\* { ...f, ...g }
Spread(f, g) ==
    [k \in (DOMAIN f) \cup (DOMAIN g) |-> IF k \in DOMAIN g THEN g[k] ELSE f[k]]

\* acc[key] = value
Assign(acc, key, value) == Spread(acc, [k \in {key} |-> value])

TermFires(term, op) == term # <<>> /\ IsTextSearchOperator(op)

\* the condition an entry builds from the filter value, or else the term
Contribution(q, filters, term) ==
    LET value == IF q.key \in DOMAIN filters THEN filters[q.key] ELSE term
    IN  CreateFilterCondition(q.op, value, InferDataType(value))

\* parseProps: the conditions by key, a later directive replacing an
\* earlier one for the same key
RECURSIVE ParseProps(_, _, _)
ParseProps(filters, term, schema) ==
    IF schema = <<>> THEN NoFields
    ELSE LET q   == schema[Len(schema)]
             acc == ParseProps(filters, term, SubSeq(schema, 1, Len(schema) - 1))
         IN  IF q.kind # "scalar" THEN acc
             ELSE IF q.key \in DOMAIN filters \/ TermFires(term, q.op)
             THEN Assign(acc, q.key, Contribution(q, filters, term))
             ELSE acc

\* whether a relation directive is processed
RelationFires(q, filters, term) ==
    /\ ~(q.key \notin DOMAIN filters /\ term = <<>>)
    /\ ~(term # <<>> /\ ~IsTextSearchOperator(q.op))

\* parseOneToOne: by parent, the list [junction, list] the directives push to
RECURSIVE ParseOneToOne(_, _, _)
ParseOneToOne(filters, term, schema) ==
    IF schema = <<>> THEN NoFields
    ELSE LET q   == schema[Len(schema)]
             acc == ParseOneToOne(filters, term,
                                  SubSeq(schema, 1, Len(schema) - 1))
         IN  IF q.kind # "one" \/ ~RelationFires(q, filters, term) THEN acc
             ELSE LET old == IF q.parent \in DOMAIN acc THEN acc[q.parent].list
                             ELSE <<>>
                  IN  Assign(acc, q.parent,
                             [junction |-> IF term # <<>> THEN "OR" ELSE "AND",
                              list |-> Append(old,
                                  [key |-> q.key,
                                   cond |-> Contribution(q, filters, term)])])

\* parseOneToMany: by parent, the single { some: { relation: condition } }
RECURSIVE ParseOneToMany(_, _, _)
ParseOneToMany(filters, term, schema) ==
    IF schema = <<>> THEN NoFields
    ELSE LET q   == schema[Len(schema)]
             acc == ParseOneToMany(filters, term,
                                   SubSeq(schema, 1, Len(schema) - 1))
         IN  IF q.kind # "many" \/ ~RelationFires(q, filters, term) THEN acc
             ELSE Assign(acc, q.parent,
                         [some |-> [key |-> q.key,
                                    cond |-> Contribution(q, filters, term)]])

\* the object an enum entry's where(value, filters) returns; hasValue tells
\* whether value is truthy
EnumClause(key, form, text) == [key |-> key, form |-> form, text |-> text]

\* the where of createEnumFilter
EnumWhere(q, hasValue, value, term) ==
    IF term # <<>> /\ ToUpper(term) \in q.values
    THEN EnumClause(q.key, "is", ToUpper(term))
    ELSE IF hasValue /\ value # <<>>
    THEN IF value \in q.values THEN EnumClause(q.key, "in", value)
         ELSE EnumClause(q.key, "is", value)
    ELSE EnumClause("", "empty", <<>>)

\* parseFilterFunction: the clauses of the object entries whose key the
\* filters supply (the filters it is handed carry no term)
RECURSIVE FilterClauses(_, _)
FilterClauses(filters, schema) ==
    IF schema = <<>> THEN <<>>
    ELSE LET q == schema[Len(schema)]
             acc == FilterClauses(filters, SubSeq(schema, 1, Len(schema) - 1))
         IN  IF q.kind # "enum" \/ q.key \notin DOMAIN filters THEN acc
             ELSE Append(acc, EnumWhere(q, TRUE, filters[q.key], <<>>))

ParseFilterFunction(filters, schema) ==
    IF FilterClauses(filters, schema) = <<>> THEN NoFields
    ELSE [k \in {"AND"} |-> [list |-> FilterClauses(filters, schema)]]

\* Object.entries(fields).map(([key, value]) => ({ [key]: value })), in
\* the order the keys first appear in the schema
RECURSIVE TermEntries(_, _)
TermEntries(fields, schema) ==
    IF schema = <<>> THEN <<>>
    ELSE LET q == Head(schema)
             k == IF q.kind = "scalar" THEN q.key ELSE q.parent
         IN  (IF k \in DOMAIN fields
              THEN <<[key |-> k, cond |-> fields[k]]>> ELSE <<>>)
             \o TermEntries([j \in (DOMAIN fields) \ {k} |-> fields[j]],
                            Tail(schema))

\* the enum entries' answers to the term
RECURSIVE EnumFilters(_, _)
EnumFilters(term, schema) ==
    IF schema = <<>> THEN <<>>
    ELSE LET q == Head(schema)
         IN  (IF q.kind = "enum"
              THEN <<[key |-> EnumWhere(q, FALSE, <<>>, term).key,
                      cond |-> EnumWhere(q, FALSE, <<>>, term)]>>
              ELSE <<>>)
             \o EnumFilters(term, Tail(schema))

\* the four parsers spread into one object
FieldFilters(filters, term, schema) ==
    Spread(Spread(ParseProps(filters, term, schema),
                  ParseOneToOne(filters, term, schema)),
           ParseOneToMany(filters, term, schema))

\* parseQueryFilter: the where fragment [fields, hasOR, OR]
ParseQueryFilter(filters, term, schema) ==
    LET fieldFilters == Spread(FieldFilters(filters, <<>>, schema),
                               ParseFilterFunction(filters, schema))
    IN  IF term = <<>>
        THEN [fields |-> fieldFilters, hasOR |-> FALSE, OR |-> <<>>]
        ELSE [fields |-> fieldFilters, hasOR |-> TRUE,
              OR |-> TermEntries(FieldFilters(NoFields, term, schema), schema)
                     \o EnumFilters(term, schema)]

\* ------------------------------------------------------- the result mapper

MaxMapped == 3

\* { ...cachedData, ...sharedData } for the contribution of row i: every
\* contribution sets a key of its own and one key all of them share
Fold(acc, i) == [last |-> i, from |-> acc.from \cup {i}]

\* a page of rows; rows[i] tells whether the mapper's answer for row i
\* carries $__cachedData
InitMap ==
    /\ rows \in Tables({"live"})
    /\ \A i \in 1..MaxRows : rows[i].title = <<"G">>
    /\ base \in {Canonical(p) : p \in BaseParams}
    /\ base.given = {}
    /\ req = NoRequest
    /\ resp = NoResult
    /\ queries = <<>>
    /\ hist = <<>>
    /\ trav = <<>>
    /\ chain = "none"
    /\ stable = {}
    /\ cache = {}
    /\ writes = 0
    /\ input = <<>>
    /\ auth = NoAuth
    /\ lib = NoLibrary
    /\ \E n \in 1..MaxMapped :
          mapper \in {[rows |-> r, pc |-> [i \in 1..n |-> "idle"],
                       cachedData |-> EmptyAccumulator,
                       received |-> [i \in 1..n |-> EmptyAccumulator],
                       settled |-> <<>>] : r \in [1..n -> BOOLEAN]}

\* results.map(async (result) => ... await dataMapper(result, results,
\* cachedData) ...): map runs every callback up to its await, so every
\* mapper is called, in row order, before any continuation runs
MapResults ==
    /\ mapper.rows # <<>>
    /\ \A i \in DOMAIN mapper.pc : mapper.pc[i] = "idle"
    /\ mapper' = [mapper EXCEPT
                     !.pc = [i \in DOMAIN mapper.pc |-> "awaiting"],
                     !.received = [i \in DOMAIN mapper.pc |-> mapper.cachedData]]
    /\ UNCHANGED <<rows, base, req, resp, queries, hist, trav, chain, stable,
                   cache, writes, input, auth, lib>>

\* the mapper of row i settles and the callback resumes:
\* if (sharedData) cachedData = { ...cachedData, ...sharedData }
MapperSettles(i) ==
    /\ mapper.pc[i] = "awaiting"
    /\ mapper' = [mapper EXCEPT
                     !.pc[i] = "done",
                     !.cachedData = IF mapper.rows[i] THEN Fold(@, i) ELSE @,
                     !.settled = Append(@, i)]
    /\ UNCHANGED <<rows, base, req, resp, queries, hist, trav, chain, stable,
                   cache, writes, input, auth, lib>>

NextMap == MapResults \/ \E i \in DOMAIN mapper.pc : MapperSettles(i)

SpecMap == InitMap /\ [][NextMap]_vars

MappingDone ==
    /\ mapper.rows # <<>>
    /\ \A i \in DOMAIN mapper.pc : mapper.pc[i] = "done"

\* the accumulator call-order folding leaves after the rows before j
RECURSIVE FoldedBefore(_)
FoldedBefore(j) ==
    IF j <= 1 THEN EmptyAccumulator
    ELSE IF mapper.rows[j - 1] THEN Fold(FoldedBefore(j - 1), j - 1)
    ELSE FoldedBefore(j - 1)

\* C17: once a page is mapped, the mapper call of every row received the
\* contributions of all earlier rows that returned $__cachedData, and the
\* accumulator is the fold of the contributions in row order, whatever the
\* order the mappers completed in.
C17_AccumulatorSeenByLaterRows ==
    MappingDone =>
        /\ \A j \in DOMAIN mapper.pc : mapper.received[j] = FoldedBefore(j)
        /\ mapper.cachedData = FoldedBefore(Len(mapper.rows) + 1)

\* --------------------------------------------------------- the auth service
\* auth.users: the users table, set of [id, email, password];
\* auth.sessions: the session entries of the cache, set of [userId, sessionId];
\* auth.audit: the audit log; auth.now: the clock in seconds;
\* auth.issued: the tokens login has handed out; auth.loggedOut: the tokens
\* a logout succeeded for; auth.last: the latest event and its answer.
\* The clock stays far below the lifetime of a token.

MaxUsers == 2
MaxClock == 1

Emails == {"a@x", "b@x"}

Passwords == {"p", "q"}

\* jwt.signAsync({ email, userId }): the token carries the payload and the
\* second it was issued in, and its signature is a function of the two
SignToken(userId, email, iat) == <<userId, email, iat>>

\* const [, , sessionId] = token.split('.')
SessionId(token) == token

TokenEmail(token) == token[2]

\* `${CacheKeysEnums.TOKENS}:${user.id}:${sessionId}`
SessionKey(userId, sessionId) == [userId |-> userId, sessionId |-> sessionId]

\* prisma.user.findUnique({ where: { email } })
UsersByEmail(email) == {u \in auth.users : u.email = email}

\* a users table without the unique index on email
UniqueViolationNever(email) == FALSE

\* users_email_key: the insert fails with P2002
UniqueViolation(email) == UsersByEmail(email) # {}

Answer(op, ok, error, message, email, token) ==
    [op |-> op, ok |-> ok, error |-> error, message |-> message,
     email |-> email, token |-> token,
     taken |-> UsersByEmail(email) # {},
     afterLogout |-> token \in auth.loggedOut,
     usersBefore |-> auth.users, auditBefore |-> Len(auth.audit)]

OtherThanAuth ==
    <<rows, base, req, resp, queries, hist, trav, chain, stable, cache,
      writes, input, mapper, lib>>

InitAuth ==
    /\ rows \in Tables({"live"})
    /\ \A i \in 1..MaxRows : rows[i].title = <<"G">>
    /\ InitClient
    /\ base.given = {}
    /\ input = <<>>

\* AuthService.signup
Signup(email, password) ==
    /\ Cardinality(auth.users) < MaxUsers \/ UsersByEmail(email) # {}
    /\ IF UniqueViolation(email)
       THEN auth' = [auth EXCEPT !.last =
                        Answer("signup", FALSE, "Forbidden",
                               "Email address already exists", email, <<>>)]
       ELSE LET id == Cardinality(auth.users) + 1
            IN  auth' = [auth EXCEPT
                           !.users = @ \cup {[id |-> id, email |-> email,
                                              password |-> password]},
                           !.audit = Append(@, [action |-> "CREATE",
                                                entityType |-> "USER",
                                                entityId |-> id,
                                                userId |-> id]),
                           !.last = Answer("signup", TRUE, "", "", email, <<>>)]
    /\ UNCHANGED OtherThanAuth

\* AuthService.login
Login(email, password) ==
    /\ LET found == UsersByEmail(email)
       IN  IF found = {} \/ \A u \in found : u.password # password
           THEN auth' = [auth EXCEPT !.last =
                            Answer("login", FALSE, "Unauthorized",
                                   "Incorrect Credentials", email, <<>>)]
           ELSE \E user \in found :
                   LET token == SignToken(user.id, user.email, auth.now)
                   IN  auth' = [auth EXCEPT
                                  !.sessions = @ \cup
                                      {SessionKey(user.id, SessionId(token))},
                                  !.issued = @ \cup {token},
                                  !.last = Answer("login", TRUE, "", "",
                                                  email, token)]
    /\ UNCHANGED OtherThanAuth

\* JwtStrategy.validate for a token login issued: "" when the request
\* passes, else the message of the UnauthorizedException
Validate(token) ==
    IF UsersByEmail(TokenEmail(token)) = {} THEN "User not found"
    ELSE IF \A u \in UsersByEmail(TokenEmail(token)) :
               SessionKey(u.id, SessionId(token)) \notin auth.sessions
    THEN "Invalid or expired session"
    ELSE ""

\* a request to a guarded route other than logout
GuardedRequest(token) ==
    /\ auth' = [auth EXCEPT !.last =
                    IF Validate(token) = ""
                    THEN Answer("request", TRUE, "", "", TokenEmail(token), token)
                    ELSE Answer("request", FALSE, "Unauthorized",
                                Validate(token), TokenEmail(token), token)]
    /\ UNCHANGED OtherThanAuth

\* POST /auth/logout: the guard, then AuthService.logout
Logout(token) ==
    /\ IF Validate(token) # ""
       THEN auth' = [auth EXCEPT !.last =
                        Answer("logout", FALSE, "Unauthorized",
                               Validate(token), TokenEmail(token), token)]
       ELSE \E user \in UsersByEmail(TokenEmail(token)) :
               IF SessionKey(user.id, SessionId(token)) \notin auth.sessions
               THEN auth' = [auth EXCEPT !.last =
                                Answer("logout", FALSE, "Unauthorized",
                                       "Invalid or expired session",
                                       TokenEmail(token), token)]
               ELSE auth' = [auth EXCEPT
                               !.sessions = @ \ {SessionKey(user.id,
                                                            SessionId(token))},
                               !.loggedOut = @ \cup {token},
                               !.last = Answer("logout", TRUE, "", "",
                                               TokenEmail(token), token)]
    /\ UNCHANGED OtherThanAuth

\* a session entry outlives its time to live in the cache
SessionExpires ==
    /\ \E k \in auth.sessions :
          auth' = [auth EXCEPT !.sessions = @ \ {k},
                               !.last = [NoAnswer EXCEPT !.op = "expire"]]
    /\ UNCHANGED OtherThanAuth

\* a second passes
Tick ==
    /\ auth.now < MaxClock
    /\ auth' = [auth EXCEPT !.now = @ + 1]
    /\ UNCHANGED OtherThanAuth

NextAuth ==
    \/ \E e \in Emails, p \in Passwords : Signup(e, p)
    \/ \E e \in Emails, p \in Passwords : Login(e, p)
    \/ \E t \in auth.issued : GuardedRequest(t)
    \/ \E t \in auth.issued : Logout(t)
    \/ SessionExpires
    \/ Tick

SpecAuth == InitAuth /\ [][NextAuth]_vars

\* C19: a successful login leaves a session entry keyed by the user's id and
\* the token's signature; once a logout has succeeded for a token, every
\* later guarded request with that token is refused with Unauthorized
\* 'Invalid or expired session', and so is another logout with it.
C19_LoggedOutTokenRejected ==
    /\ (auth.last.op = "login" /\ auth.last.ok) =>
          \E u \in UsersByEmail(auth.last.email) :
             SessionKey(u.id, SessionId(auth.last.token)) \in auth.sessions
    /\ (auth.last.op \in {"request", "logout"} /\ auth.last.afterLogout) =>
          /\ ~auth.last.ok
          /\ auth.last.error = "Unauthorized"
          /\ auth.last.message = "Invalid or expired session"

\* C20: a signup with an email a user already has is refused with Forbidden
\* 'Email address already exists', adds no user and no audit record; no two
\* users ever share an email.
C20_DuplicateEmailRefused ==
    /\ (auth.last.op = "signup" /\ auth.last.taken) =>
          /\ ~auth.last.ok
          /\ auth.last.error = "Forbidden"
          /\ auth.last.message = "Email address already exists"
          /\ auth.users = auth.last.usersBefore
          /\ Len(auth.audit) = auth.last.auditBefore
    /\ \A u, v \in auth.users : u.email = v.email => u = v

C20_Witness ==
    /\ auth.last.op = "signup"
    /\ auth.last.taken
    /\ auth.last.error = "Forbidden"
    /\ Cardinality(auth.users) = 1
    /\ Len(auth.audit) = 1

\* ------------------------------------------- the Filter Translator, applied

MaxSchema == 2

Str(a, b) == <<a, b>>

StrDate == <<"2", "0", "2", "4", "-", "0", "1", "-", "0", "1">>

SchemaEntries ==
    {Scalar("title", "contains"), Scalar("title", "startsWith"),
     Scalar("number", "equals"), Scalar("number", "gt"),
     Scalar("meta", "hasKey"),
     OneToOne("user", "name", "contains"),
     OneToMany("tags", "name", "contains"),
     OneToMany("tags", "name", "equals"),
     CreateEnumFilter("status", {Str("G", "A")}),
     CreateEnumFilter("status", {Str("G", "a")})}

FilterKeys == {"title", "number", "meta", "name", "status"}

FilterValues ==
    {<<"G">>, <<"5">>, StrTrue, Str("G", "a"), Str("{", "}"), StrDate}

TermValues ==
    {<<>>, <<"G">>, <<"5">>, StrTrue, Str("g", "a"), Str("G", "a"), StrDate}

InferValues ==
    FilterValues \cup TermValues \cup
    {<<"1", "2", "3">>, <<"-", "5">>, <<" ", "5">>, <<"T", "R", "U", "E">>,
     StrFalse, Str("[", "]"), <<"5", "G">>,
     <<"2", "0", "2", "4", "-", "1", "3", "-", "0", "1">>,
     <<"2", "0", "2", "4", "0", "1", "0", "1">>}

FilterSets ==
    {NoFields} \cup {[j \in {k} |-> v] : k \in FilterKeys, v \in FilterValues}

FilterInputs ==
    {[op |-> "parse", schema |-> sc, filters |-> f, term |-> t] :
        sc \in SeqsUpTo(SchemaEntries, MaxSchema), f \in FilterSets,
        t \in TermValues}
    \cup {[op |-> "infer", value |-> v] : v \in InferValues}

InitFilter ==
    /\ rows \in Tables({"live"})
    /\ \A i \in 1..MaxRows : rows[i].title = <<"G">>
    /\ InitClient
    /\ base.given = {}
    /\ input \in FilterInputs

\* one parseQueryFilter call
Translate ==
    /\ req.act = "none" /\ input.op = "parse"
    /\ req' = [act |-> "parseQueryFilter", params |-> req.params]
    /\ resp' = [kind |-> "where",
                where |-> ParseQueryFilter(input.filters, input.term,
                                           input.schema)]
    /\ UNCHANGED <<rows, base, queries, hist, trav, chain, stable, cache,
                   writes, input, mapper, auth, lib>>

\* one inferDataType call
Infer ==
    /\ req.act = "none" /\ input.op = "infer"
    /\ req' = [act |-> "inferDataType", params |-> req.params]
    /\ resp' = [kind |-> "type", type |-> InferDataType(input.value)]
    /\ UNCHANGED <<rows, base, queries, hist, trav, chain, stable, cache,
                   writes, input, mapper, auth, lib>>

NextFilter == Translate \/ Infer

SpecFilter == InitFilter /\ [][NextFilter]_vars

\* a parseQueryFilter call has answered
Translated == req.act = "parseQueryFilter" /\ resp.kind = "where"

TextEntry(q) == q.kind \in {"scalar", "one", "many"} /\ IsTextSearchOperator(q.op)

SchemaEntry(j) == input.schema[j]

\* the clause c carries the contribution of entry q built from filters f
\* and term t
Carries(c, q, f, t) ==
    CASE q.kind = "scalar" -> c = Contribution(q, f, t)
      [] q.kind = "one" ->
           /\ "list" \in DOMAIN c
           /\ \E m \in 1..Len(c.list) :
                 c.list[m] = [key |-> q.key, cond |-> Contribution(q, f, t)]
      [] q.kind = "many" ->
           /\ "some" \in DOMAIN c
           /\ c.some = [key |-> q.key, cond |-> Contribution(q, f, t)]
      [] OTHER -> FALSE

ClauseKey(q) == IF q.kind = "scalar" THEN q.key ELSE q.parent

\* C11: with a term, every text-search-capable entry's contribution built
\* from the term is a member of the one OR group (a one-to-one parent's
\* members are themselves joined by OR, never AND), and the fields beside the
\* OR group are exactly the predicates of the non-term filters.
C11_TermContributionsInOneOrGroup ==
    (Translated /\ input.term # <<>>) =>
        /\ resp.where.hasOR
        /\ \A j \in 1..Len(input.schema) :
              TextEntry(SchemaEntry(j)) =>
                 \E m \in 1..Len(resp.where.OR) :
                    /\ resp.where.OR[m].key = ClauseKey(SchemaEntry(j))
                    /\ Carries(resp.where.OR[m].cond, SchemaEntry(j),
                               NoFields, input.term)
        /\ \A m \in 1..Len(resp.where.OR) :
              "junction" \in DOMAIN resp.where.OR[m].cond =>
                 resp.where.OR[m].cond.junction = "OR"
        /\ "OR" \notin DOMAIN resp.where.fields

\* whether the filters supply the value entry q reads
Supplied(q) == q.kind \in {"scalar", "one", "many"} /\ q.key \in DOMAIN input.filters

\* C12: every scalar or one-to-many entry whose value the filters supply
\* has its contribution in the predicate, also when another entry targets
\* the same key or the same parent relation; none is dropped or overwritten.
C12_EveryEntryContributes ==
    Translated =>
        \A j \in 1..Len(input.schema) :
           (Supplied(SchemaEntry(j)) /\ SchemaEntry(j).kind \in {"scalar", "many"}) =>
               /\ ClauseKey(SchemaEntry(j)) \in DOMAIN resp.where.fields
               /\ Carries(resp.where.fields[ClauseKey(SchemaEntry(j))],
                          SchemaEntry(j), input.filters, <<>>)

\* the conditions inside one clause of a where fragment
CondsOfClause(c) ==
    IF "op" \in DOMAIN c THEN {c}
    ELSE IF "some" \in DOMAIN c THEN {c.some.cond}
    ELSE IF "junction" \in DOMAIN c THEN {c.list[m].cond : m \in 1..Len(c.list)}
    ELSE {}

CondsOf(where) ==
    UNION ({CondsOfClause(where.fields[k]) : k \in DOMAIN where.fields}
           \cup {CondsOfClause(where.OR[m].cond) : m \in 1..Len(where.OR)})

\* C13: every condition with the operator contains, startsWith or endsWith
\* that the translator produces from a string filter value or term asks for
\* case-insensitive matching.
C13_TextOperatorsIgnoreCase ==
    Translated =>
        \A c \in CondsOf(resp.where) :
           IsTextSearchOperator(c.op) => c.mode = "insensitive"

\* C14: when the term equals a declared value of an enum entry ignoring
\* case, the OR group holds an equality clause for that entry's key.
C14_EnumTermIgnoresCase ==
    (Translated /\ input.term # <<>>) =>
        \A j \in 1..Len(input.schema) :
           (/\ SchemaEntry(j).kind = "enum"
            /\ \E v \in SchemaEntry(j).values : ToLower(v) = ToLower(input.term)) =>
               \E m \in 1..Len(resp.where.OR) :
                  /\ resp.where.OR[m].key = SchemaEntry(j).key
                  /\ resp.where.OR[m].cond.form = "is"

\* the operators that need a value of one type
Unsupported(op, type) ==
    \/ op \in {"gt", "gte", "lt", "lte"} /\ type # "number"
    \/ op = "hasKey" /\ type # "json"

\* C15: a scalar entry whose operator is not supported for the inferred type
\* of the supplied value contributes no clause: the call answers, and the
\* predicate has nothing for that key (no other entry targeting the key).
C15_UnsupportedOperatorOmitted ==
    (req.act = "parseQueryFilter") =>
        /\ resp.kind = "where"
        /\ \A j \in 1..Len(input.schema) :
              (/\ SchemaEntry(j).kind = "scalar"
               /\ Supplied(SchemaEntry(j))
               /\ Unsupported(SchemaEntry(j).op,
                              InferDataType(input.filters[SchemaEntry(j).key]))
               /\ \A i \in 1..Len(input.schema) :
                     (i # j /\ SchemaEntry(i).kind = "scalar") =>
                        SchemaEntry(i).key # SchemaEntry(j).key) =>
                  SchemaEntry(j).key \notin DOMAIN resp.where.fields

Inferred == req.act = "inferDataType" /\ resp.kind = "type"

\* C16: inferDataType answers number for every string of the form
\* -?digits (so never date or string, "123" included), boolean for "true",
\* date for "2024-01-01", and checks in the order number, boolean, JSON,
\* date, string.
C16_InferenceOrder ==
    Inferred =>
        /\ IsNumericString(input.value) => resp.type = "number"
        /\ input.value = <<"1", "2", "3">> => resp.type = "number"
        /\ input.value = StrTrue => resp.type = "boolean"
        /\ input.value = StrDate => resp.type = "date"
        /\ resp.type = "date" => ~IsNumericString(input.value)
        /\ resp.type = "boolean" => ToLower(input.value) \in {StrTrue, StrFalse}
        /\ resp.type = "json" => IsJsonObjectText(input.value)
        /\ resp.type = "string" =>
              /\ ~IsNumericString(input.value)
              /\ ~IsDateString(input.value)

C16_Witness ==
    /\ Inferred
    /\ input.value = <<"1", "2", "3">>
    /\ resp.type = "number"

\* C26: with a term that matches none of an enum entry's values, the entry
\* adds no element to the OR group, so the OR group never holds an empty
\* predicate, which every row satisfies.
C26_NoEmptyPredicateInOrGroup ==
    (Translated /\ input.term # <<>>) =>
        \A m \in 1..Len(resp.where.OR) :
           resp.where.OR[m].cond # EnumClause("", "empty", <<>>)

\* an enum entry declining the term left {} in the OR group
C26_EmptyPredicateKept ==
    /\ Translated /\ input.term # <<>>
    /\ \E j \in 1..Len(input.schema) :
          /\ SchemaEntry(j).kind = "enum"
          /\ ToUpper(input.term) \notin SchemaEntry(j).values
    /\ \E m \in 1..Len(resp.where.OR) :
          resp.where.OR[m].cond = EnumClause("", "empty", <<>>)



\* ===================================================================
\* The hymn list operation (specification SpecHymn)
\* ===================================================================

HymnSchema ==
    <<Scalar("title", "contains"),
      Scalar("number", "equals"),
      Scalar("author", "contains")>>

\* FetchHymnsDto: [given, orderBy, direction, cursor, size, page,
\* paginationType, term, number]
HymnDto(given, orderBy, direction, cursor, size, page, paginationType, term, number) ==
    [given |-> given,
     orderBy |-> IF "orderBy" \in given THEN orderBy ELSE "",
     direction |-> IF "direction" \in given THEN direction ELSE "",
     cursor |-> IF "cursor" \in given THEN cursor ELSE EmptyString,
     size |-> IF "size" \in given THEN size ELSE 0,
     page |-> IF "page" \in given THEN page ELSE 0,
     paginationType |-> IF "paginationType" \in given THEN paginationType ELSE "",
     term |-> IF "term" \in given THEN term ELSE <<>>,
     number |-> IF "number" \in given THEN number ELSE <<>>]

\* the rest of the dto, as handed to parseQueryFilter, without the term
DtoFilters(dto) == [k \in dto.given \cap {"number"} |-> dto[k]]

\* the params fetchHymns hands to findManyPaginate
DtoParams(dto) ==
    Params(dto.given \cap {"cursor", "direction", "orderBy", "size"},
           dto.size, dto.cursor, "", 0, dto.direction, StrVal(""),
           OrderString(dto.orderBy))

HymnWhere(parsed) ==
    [deletedAtNull |-> TRUE, fields |-> parsed.fields,
     hasOR |-> parsed.hasOR, OR |-> parsed.OR]

\* cacheService.get
CacheGet(key) == {e \in cache : e.key = key}

\* HymnService.fetchHymns
FetchHymns(dto) ==
    LET parsedFilterQuery == ParseQueryFilter(DtoFilters(dto), dto.term, HymnSchema)
        args == [where |-> HymnWhere(parsedFilterQuery)]
    IN  /\ req' = [act |-> "fetchHymns", params |-> dto]
        /\ IF CacheGet(dto) # {}
           THEN /\ resp' \in {e.value : e \in CacheGet(dto)}
                /\ queries' = <<>>
                /\ cache' = cache
           ELSE \E o \in FindManyPaginate(args, DtoParams(dto)) :
                   /\ resp' = o.resp
                   /\ queries' = o.queries
                   /\ cache' = IF o.resp.kind = "error" THEN cache
                               ELSE {[key |-> dto, value |-> o.resp]}
        /\ UNCHANGED <<rows, base, hist, trav, chain, stable, writes, input, mapper, auth, lib>>

\* a cache entry outlives its time to live
CacheExpire ==
    /\ cache # {}
    /\ cache' = {}
    /\ UNCHANGED <<rows, base, req, resp, queries, hist, trav, chain, stable,
                   writes, input, mapper, auth, lib>>

\* twenty-five hymns titled "01" .. "25", numbered 1 .. 25
TwoDigits(n) ==
    <<CHOOSE c \in Digits : CharCode(c) = 48 + (n \div 10),
      CHOOSE c \in Digits : CharCode(c) = 48 + (n % 10)>>

TwentyFiveHymns ==
    [i \in 1..25 |-> [title |-> TwoDigits(i), number |-> i,
                      author |-> DefaultAuthor, st |-> "live"]]

HymnTitles == {<<"G">>, <<"g", "5">>}

HymnAuthors == {<<"a">>, <<"A", "5">>}

SmallHymnTables ==
    {<<[title |-> t, number |-> n, author |-> a, st |-> d],
       [title |-> <<"G">>, number |-> 7, author |-> <<"a">>, st |-> d2]>> :
     t \in HymnTitles, n \in {5, 6}, a \in HymnAuthors,
     d \in {"live", "soft"}, d2 \in {"live", "soft"}}

Terms == {<<"5">>, <<"g">>, <<"G">>, <<"a">>}

PagingDtos ==
    {HymnDto(g, "title", "asc", Link(20, 1).cursor, s, 2, "cursor", <<>>, <<>>) :
       g \in {{"size"} \cup h : h \in SUBSET {"page", "cursor", "paginationType"}},
       s \in {3, 10}}

TermDtos ==
    {HymnDto(g, "", "", EmptyString, 0, 0, "", t, <<"5">>) :
       g \in SUBSET {"term", "number"}, t \in Terms}

InitHymn ==
    /\ rows \in SmallHymnTables \cup {TwentyFiveHymns}
    /\ InitClient
    /\ base.given = {}
    /\ input = <<>>

ListHymns ==
    \E dto \in (IF Len(rows) = 25 THEN PagingDtos ELSE TermDtos) :
       FetchHymns(dto)

NextHymn ==
    \/ ListHymns
    \/ CacheExpire

SpecHymn == InitHymn /\ [][NextHymn]_vars

HymnListed == req.act = "fetchHymns" /\ resp.kind # "error"

\* C7: the hymn list returns the page the caller selects: with 25 hymns,
\* size = 10 and page = 2 it returns items 11-20 (newest first: hymns 15 down
\* to 6) with currentPage = 2 and totalPages = 3, and a supplied cursor
\* decides which page comes back (after hymn 20 comes hymn 19).
C7_CallerSelectsPage ==
    (HymnListed /\ Len(rows) = 25) =>
        /\ (req.params.given = {"size", "page"} /\ req.params.size = 10) =>
              /\ resp.items = [k \in 1..10 |-> 16 - k]
              /\ resp.meta.currentPage = 2
              /\ resp.meta.totalPages = 3
        /\ (req.params.given = {"size", "cursor", "paginationType"}) =>
              /\ resp.kind = "cursor"
              /\ resp.items[1] = 19

ContainsIgnoringCase(s, t) == StrContains(ToLower(s), ToLower(t))

TermHits(t) ==
    {i \in RowIds :
        /\ rows[i].st = "live"
        /\ \/ ContainsIgnoringCase(rows[i].title, t)
           \/ (IsNumericString(t) /\ rows[i].number = ToNumber(t))
           \/ ContainsIgnoringCase(rows[i].author, t)}

\* C10: fetchHymns with term = t returns the non-deleted hymns whose title
\* contains t, or whose number equals t, or whose author contains t.
C10_TermSearchesThreeFields ==
    (HymnListed /\ req.params.given = {"term"}) =>
        Range(resp.items) = TermHits(req.params.term)

\* ===================================================================
\* Soft deletion of hymns, verses and choruses (specification SpecLibrary)
\* ===================================================================
\* rows is the hymns table with the column deletedAt, 0 standing for null,
\* and st = "soft" exactly when deletedAt is set; a verse or a chorus is
\* [hymnId, deletedAt].  The database is PostgreSQL at its default isolation
\* level: a statement sees the rows committed when it runs, the writes of an
\* open transaction are seen by no other request before it commits, and a
\* row written by an open transaction cannot be written by another request
\* until the transaction ends.  A behaviour holds at most MaxCalls calls of
\* the service.

MaxHymns == 2
MaxVerses == 2
MaxChoruses == 1
MaxDate == 2
MaxRequests == 2
MaxCalls == 4

Requests == 1..MaxRequests

\* a request with no transaction open
Idle == [pc |-> "idle", op |-> "", id |-> 0, at |-> 0,
         verses |-> {}, choruses |-> {}]

NoUndo == [id |-> 0, verses |-> <<>>, choruses |-> <<>>]

\* the deletedAt columns of the three tables
Snapshot ==
    [hymns |-> [i \in DOMAIN rows |-> rows[i].deletedAt],
     verses |-> [v \in DOMAIN lib.verses |-> lib.verses[v].deletedAt],
     choruses |-> [c \in DOMAIN lib.choruses |-> lib.choruses[c].deletedAt]]

\* the answer of an operation, with the tables as they were before it
Reply(op, id, ok, error) ==
    [op |-> op, id |-> id, ok |-> ok, error |-> error, before |-> Snapshot,
     roundTrip |-> FALSE]

LibraryHymns ==
    [i \in 1..MaxHymns |->
        [title |-> <<"G">>, number |-> i, author |-> DefaultAuthor,
         st |-> "live", deletedAt |-> 0]]

InitContent(verses, choruses) ==
    /\ rows = LibraryHymns
    /\ base \in {Canonical(p) : p \in BaseParams}
    /\ base.given = {}
    /\ req = NoRequest
    /\ resp = NoResult
    /\ queries = <<>>
    /\ hist = <<>>
    /\ trav = <<>>
    /\ chain = "none"
    /\ stable = {}
    /\ cache = {}
    /\ writes = 0
    /\ input = <<>>
    /\ mapper = NoMapping
    /\ auth = NoAuth
    /\ lib = [verses |-> verses, choruses |-> choruses, now |-> 1,
              calls |-> 0,
              tx |-> [p \in Requests |-> Idle],
              deletes |-> [i \in 1..MaxHymns |-> 0],
              undo |-> NoUndo, last |-> NoReply]

\* the verses and choruses are dealt to the hymns in turn, none deleted
Dealt(n) ==
    [k \in 1..n |-> [hymnId |-> ((k - 1) % MaxHymns) + 1, deletedAt |-> 0]]

InitLibrary == InitContent(Dealt(MaxVerses), Dealt(MaxChoruses))

\* what every hymn-service step leaves alone
OtherThanLibrary ==
    <<base, resp, queries, hist, trav, chain, stable, cache, writes, input,
      mapper, auth>>

Answered(op) == req' = [act |-> op, params |-> req.params]

\* prisma.hymn.findFirst({ where: { id, deletedAt: null } }) of deleteHymn
FindLiveHymn(id) == id \in DOMAIN rows /\ rows[id].deletedAt = 0

\* prisma.hymn.findFirst({ where: { id, deletedAt: { not: null } } })
FindDeletedHymn(id) == id \in DOMAIN rows /\ rows[id].deletedAt # 0

\* deleteHymn up to the check of the hymn: new Date(), the transaction
\* opens, findFirst; no hymn: NotFoundException
DeleteHymn(p, id) ==
    /\ lib.tx[p].pc = "idle"
    /\ lib.calls < MaxCalls
    /\ IF FindLiveHymn(id)
       THEN /\ lib' = [lib EXCEPT !.calls = @ + 1, !.tx[p] = [Idle EXCEPT !.pc = "found",
                                                !.op = "deleteHymn",
                                                !.id = id, !.at = lib.now]]
            /\ UNCHANGED req
       ELSE /\ lib' = [lib EXCEPT !.calls = @ + 1,
                                  !.last = Reply("deleteHymn", id, FALSE,
                                                 "NotFoundException")]
            /\ Answered("deleteHymn")
    /\ UNCHANGED rows
    /\ UNCHANGED OtherThanLibrary

\* restoreHymn up to the check of the hymn
RestoreHymn(p, id) ==
    /\ lib.tx[p].pc = "idle"
    /\ lib.calls < MaxCalls
    /\ IF FindDeletedHymn(id)
       THEN /\ lib' = [lib EXCEPT !.calls = @ + 1, !.tx[p] = [Idle EXCEPT !.pc = "found",
                                                !.op = "restoreHymn",
                                                !.id = id, !.at = 0]]
            /\ UNCHANGED req
       ELSE /\ lib' = [lib EXCEPT !.calls = @ + 1,
                                  !.last = Reply("restoreHymn", id, FALSE,
                                                 "NotFoundException")]
            /\ Answered("restoreHymn")
    /\ UNCHANGED rows
    /\ UNCHANGED OtherThanLibrary

\* the hymn is written by an open transaction
HymnLocked(id) ==
    \E q \in Requests :
       lib.tx[q].id = id /\ lib.tx[q].pc \in {"hymn", "verses", "choruses"}

VerseLocked(v) == \E q \in Requests : v \in lib.tx[q].verses

ChorusLocked(c) == \E q \in Requests : c \in lib.tx[q].choruses

\* prisma.hymn.update({ where: { id }, data: { deletedAt, ... } }) inside the
\* transaction; it waits while another transaction holds the row
UpdateHymn(p) ==
    /\ lib.tx[p].pc = "found"
    /\ ~HymnLocked(lib.tx[p].id)
    /\ lib' = [lib EXCEPT !.tx[p].pc = "hymn"]
    /\ UNCHANGED <<rows, req>>
    /\ UNCHANGED OtherThanLibrary

SelectedNone(table, t) == {}

\* the rows an updateMany of the transaction t writes: those of the hymn
\* that are not deleted (deleteHymn), or that are deleted (restoreHymn)
Selected(table, t) ==
    {k \in DOMAIN table :
        /\ table[k].hymnId = t.id
        /\ IF t.op = "deleteHymn" THEN table[k].deletedAt = 0
           ELSE table[k].deletedAt # 0}

\* prisma.verse.updateMany inside the transaction
UpdateManyVerses(p) ==
    /\ lib.tx[p].pc = "hymn"
    /\ lib' = [lib EXCEPT !.tx[p].pc = "verses",
                          !.tx[p].verses = Selected(lib.verses, lib.tx[p])]
    /\ UNCHANGED <<rows, req>>
    /\ UNCHANGED OtherThanLibrary

\* prisma.chorus.updateMany inside the transaction
UpdateManyChoruses(p) ==
    /\ lib.tx[p].pc = "verses"
    /\ lib' = [lib EXCEPT !.tx[p].pc = "choruses",
                          !.tx[p].choruses = Selected(lib.choruses, lib.tx[p])]
    /\ UNCHANGED <<rows, req>>
    /\ UNCHANGED OtherThanLibrary

\* the writes of a transaction, put into a table at its commit
Written(table, keys, at) ==
    [k \in DOMAIN table |->
        IF k \in keys THEN [table[k] EXCEPT !.deletedAt = at] ELSE table[k]]

\* the callback returns and the transaction commits: the answer is
\* { message, data }
Commit(p) ==
    LET t == lib.tx[p]
    IN  /\ t.pc = "choruses"
        /\ rows' = [rows EXCEPT ![t.id].deletedAt = t.at,
                                ![t.id].st = IF t.at = 0 THEN "live" ELSE "soft"]
        /\ lib' = [lib EXCEPT
              !.verses = Written(@, t.verses, t.at),
              !.choruses = Written(@, t.choruses, t.at),
              !.tx[p] = Idle,
              !.deletes[t.id] = IF t.op = "deleteHymn" THEN @ + 1 ELSE 0,
              !.undo = IF t.op = "deleteHymn"
                       THEN [id |-> t.id, verses |-> Snapshot.verses,
                             choruses |-> Snapshot.choruses]
                       ELSE [@ EXCEPT !.id = 0],
              !.last = [Reply(t.op, t.id, TRUE, "") EXCEPT
                           !.roundTrip = t.op = "restoreHymn"
                                         /\ lib.undo.id = t.id]]
        /\ Answered(t.op)
        /\ UNCHANGED OtherThanLibrary

\* a statement of the transaction fails: the transaction is rolled back and
\* the catch block answers InternalServerErrorException
Rollback(p) ==
    LET t == lib.tx[p]
    IN  /\ t.pc \in {"found", "hymn", "verses", "choruses"}
        /\ lib' = [lib EXCEPT
              !.tx[p] = Idle,
              !.last = Reply(t.op, t.id, FALSE, "InternalServerErrorException")]
        /\ Answered(t.op)
        /\ UNCHANGED rows
        /\ UNCHANGED OtherThanLibrary

\* VerseService.deleteVerse: one update by id; P2025 becomes a plain Error
DeleteVerse(v) ==
    /\ ~VerseLocked(v)
    /\ lib.calls < MaxCalls
    /\ IF v \in DOMAIN lib.verses
       THEN lib' = [lib EXCEPT !.calls = @ + 1,
                               !.verses[v].deletedAt = lib.now,
                               !.undo = NoUndo,
                               !.last = Reply("deleteVerse", v, TRUE, "")]
       ELSE lib' = [lib EXCEPT !.calls = @ + 1,
                               !.last = Reply("deleteVerse", v, FALSE, "Error")]
    /\ Answered("deleteVerse")
    /\ UNCHANGED rows
    /\ UNCHANGED OtherThanLibrary

\* ChorusService.deleteChorus: one update by id; P2025 becomes
\* NotFoundException
DeleteChorus(c) ==
    /\ ~ChorusLocked(c)
    /\ lib.calls < MaxCalls
    /\ IF c \in DOMAIN lib.choruses
       THEN lib' = [lib EXCEPT !.calls = @ + 1,
                               !.choruses[c].deletedAt = lib.now,
                               !.undo = NoUndo,
                               !.last = Reply("deleteChorus", c, TRUE, "")]
       ELSE lib' = [lib EXCEPT !.calls = @ + 1,
                               !.last = Reply("deleteChorus", c, FALSE,
                                              "NotFoundException")]
    /\ Answered("deleteChorus")
    /\ UNCHANGED rows
    /\ UNCHANGED OtherThanLibrary

\* time passes between two new Date() calls
Passes ==
    /\ lib.now < MaxDate
    /\ lib' = [lib EXCEPT !.now = @ + 1]
    /\ UNCHANGED <<rows, req>>
    /\ UNCHANGED OtherThanLibrary

NextLibrary ==
    \/ \E p \in Requests, id \in 1..(MaxHymns + 1) : DeleteHymn(p, id)
    \/ \E p \in Requests, id \in 1..(MaxHymns + 1) : RestoreHymn(p, id)
    \/ \E p \in Requests : UpdateHymn(p)
    \/ \E p \in Requests : UpdateManyVerses(p)
    \/ \E p \in Requests : UpdateManyChoruses(p)
    \/ \E p \in Requests : Commit(p)
    \/ \E p \in Requests : Rollback(p)
    \/ \E v \in 1..(MaxVerses + 1) : DeleteVerse(v)
    \/ \E c \in 1..(MaxChoruses + 1) : DeleteChorus(c)
    \/ Passes

SpecLibrary == InitLibrary /\ [][NextLibrary]_vars

Last == lib.last

\* the verses and choruses of a hymn
VersesOf(id) == {v \in DOMAIN lib.verses : lib.verses[v].hymnId = id}

ChorusesOf(id) == {c \in DOMAIN lib.choruses : lib.choruses[c].hymnId = id}

C22_SecondDeleteRefused ==
    /\ (Last.op = "deleteHymn" /\ Last.error = "NotFoundException") =>
          Snapshot = Last.before
    /\ (Last.op = "deleteHymn" /\ Last.ok) => Last.before.hymns[Last.id] = 0
    /\ \A i \in DOMAIN rows : lib.deletes[i] <= 1

\* two deleteHymn calls that both checked the hymn before either committed
C22_BothSucceed ==
    /\ Last.op = "deleteHymn" /\ Last.ok
    /\ lib.deletes[Last.id] = 2
    /\ Last.before.hymns[Last.id] # 0
    /\ rows[Last.id].deletedAt # Last.before.hymns[Last.id]

\* C23: deleteChorus on a chorus that does not exist or is already
\* soft-deleted fails with NotFoundException and leaves deletedAt as it was.
C23_DeletedChorusRefused ==
    (/\ Last.op = "deleteChorus"
     /\ \/ Last.id \notin DOMAIN lib.choruses
        \/ Last.before.choruses[Last.id] # 0) =>
        /\ ~Last.ok /\ Last.error = "NotFoundException"
        /\ Snapshot.choruses = Last.before.choruses

\* a second deleteChorus succeeded and moved deletedAt
C23_DeletedAgain ==
    /\ Last.op = "deleteChorus" /\ Last.ok
    /\ Last.before.choruses[Last.id] = 1
    /\ lib.choruses[Last.id].deletedAt = 2

\* C28: a deleteHymn followed by the restoreHymn of the same hymn leaves every
\* verse and chorus with the deleted status it had before the deleteHymn;
\* those soft-deleted one by one before stay deleted.
C28_RestoreUndoesDelete ==
    (Last.op = "restoreHymn" /\ Last.ok /\ Last.roundTrip) =>
        /\ \A v \in DOMAIN lib.verses :
              (lib.verses[v].deletedAt = 0) <=> (lib.undo.verses[v] = 0)
        /\ \A c \in DOMAIN lib.choruses :
              (lib.choruses[c].deletedAt = 0) <=> (lib.undo.choruses[c] = 0)

\* a verse deleted on its own came back with its hymn
C28_VerseResurrected ==
    /\ Last.op = "restoreHymn" /\ Last.ok /\ Last.roundTrip
    /\ \E v \in VersesOf(Last.id) :
          lib.undo.verses[v] # 0 /\ lib.verses[v].deletedAt = 0

\* ===================================================================
\* The hymn list while hymns are deleted and restored (specification
\* SpecListed)
\* ===================================================================

\* the list asked for with no parameter and with a size
ListedDtos ==
    {HymnDto(g, "", "", EmptyString, 1, 0, "", <<>>, <<>>) : g \in SUBSET {"size"}}

ListLibraryHymns == \E dto \in ListedDtos : FetchHymns(dto)

NextListed ==
    \/ ListLibraryHymns
    \/ CacheExpire
    \/ \E id \in 1..MaxHymns : DeleteHymn(1, id)
    \/ \E id \in 1..MaxHymns : RestoreHymn(1, id)
    \/ UpdateHymn(1)
    \/ UpdateManyVerses(1)
    \/ UpdateManyChoruses(1)
    \/ Commit(1)

SpecListed == InitLibrary /\ [][NextListed]_vars

\* C27: fetchHymns returns no soft-deleted hymn: a list asked for after a
\* deleteHymn succeeded, and before a restore, is without that hymn, also
\* when the same query was answered before the deletion.
C27_DeletedHymnNotListed ==
    (req.act = "fetchHymns" /\ resp.kind # "error") =>
        \A k \in 1..Len(resp.items) : rows[resp.items[k]].deletedAt = 0

\* a list answered from the cache after the deletion
C27_StaleList ==
    /\ req.act = "fetchHymns" /\ queries = <<>>
    /\ \E k \in 1..Len(resp.items) : rows[resp.items[k]].deletedAt # 0

====
